---- MODULE Spec2Model ----
(***************************************************************************)
(* Model of the GitHub Actions runner autoscaler controller:               *)
(*   - the allocator (strict priority and weighted fair share),            *)
(*   - the resource extractor and the capacity calculator,                 *)
(*   - the reconciler tick (ReconcileOnce) acting on the cluster state.    *)
(* CPU is counted in millicores and memory in bytes, as in the code; the   *)
(* quantities used here are small integers.                                *)
(***************************************************************************)
EXTENDS Integers, Sequences, FiniteSets, TLC

(***************************************************************************)
(* Bounds of the model.                                                    *)
(***************************************************************************)
\* largest available CPU / memory handed to the allocator on its own
MaxAvail == 3
\* largest currentRunners the environment reports for a runner set
MaxRunning == 2

\* an annotation that is not set
Absent == "<absent>"
\* An optional number (a nil pointer, a request that is not set) is a sequence of
\* at most one element.
Nil == <<>>
Some(n) == <<n>>

Max(a, b) == IF a >= b THEN a ELSE b
Min(a, b) == IF a <= b THEN a ELSE b
Abs(a) == IF a < 0 THEN 0 - a ELSE a

\* Go integer division: the quotient is truncated toward zero (b # 0).
TruncDiv(a, b) ==
  IF (a < 0) = (b < 0) THEN Abs(a) \div Abs(b) ELSE 0 - (Abs(a) \div Abs(b))

\* Go's string order on the runner set names used in the model.
NameRank(n) ==
  CASE n = "alpha" -> 1
    [] n = "high" -> 2
    [] n = "high-priority" -> 3
    [] n = "low" -> 4
    [] n = "low-priority" -> 5
    [] n = "medium" -> 6
    [] n = "medium-priority" -> 7
    [] n = "mid" -> 8
    [] n = "zebra" -> 9
    [] OTHER -> 10

NameLess(a, b) == NameRank(a) < NameRank(b)

(***************************************************************************)
(* Allocator                                                               *)
(***************************************************************************)

\* calculateMaxRunners without the clamp at 0.
calculateMaxRunnersUnclamped(rs, availableCPUMillis, availableMemoryBytes) ==
  IF rs.CPUMillis <= 0 \/ rs.MemoryBytes <= 0
  THEN 0
  ELSE Min(TruncDiv(availableMemoryBytes, rs.MemoryBytes),
           TruncDiv(availableCPUMillis, rs.CPUMillis))

\* calculateMaxRunners with the memory constraint left out.
calculateMaxRunnersByCPU(rs, availableCPUMillis, availableMemoryBytes) ==
  IF rs.CPUMillis <= 0 \/ rs.MemoryBytes <= 0
  THEN 0
  ELSE Max(0, TruncDiv(availableCPUMillis, rs.CPUMillis))

\* calculateMaxRunners with the quotients rounded up.
calculateMaxRunnersRoundedUp(rs, availableCPUMillis, availableMemoryBytes) ==
  IF rs.CPUMillis <= 0 \/ rs.MemoryBytes <= 0
  THEN 0
  ELSE Max(0, Min(TruncDiv(availableMemoryBytes + rs.MemoryBytes - 1, rs.MemoryBytes),
                  TruncDiv(availableCPUMillis + rs.CPUMillis - 1, rs.CPUMillis)))

\* calculateMaxRunners: how many runners of rs fit in the given capacity.
calculateMaxRunners(rs, availableCPUMillis, availableMemoryBytes) ==
  IF rs.CPUMillis <= 0 \/ rs.MemoryBytes <= 0
  THEN 0
  ELSE LET maxByCPU == TruncDiv(availableCPUMillis, rs.CPUMillis)
           maxByMemory == TruncDiv(availableMemoryBytes, rs.MemoryBytes)
       IN Max(0, Min(maxByMemory, maxByCPU))

\* The comparison without the tie-break on the name.
PriorityLessByPriorityOnly(a, b) == a.Priority > b.Priority

\* The comparison handed to sort.Slice: priority descending, then name ascending.
PriorityLess(a, b) ==
  IF a.Priority # b.Priority THEN a.Priority > b.Priority
  ELSE NameLess(a.Name, b.Name)

\* sort.Slice on a short slice is an insertion sort: the new element moves left
\* while it is less than its left neighbour.
RECURSIVE InsertByPriority(_, _)
InsertByPriority(s, x) ==
  IF s = <<>> THEN <<x>>
  ELSE IF PriorityLess(x, s[Len(s)])
       THEN Append(InsertByPriority(SubSeq(s, 1, Len(s) - 1), x), s[Len(s)])
       ELSE Append(s, x)

RECURSIVE SortByPriority(_)
SortByPriority(s) ==
  IF s = <<>> THEN <<>>
  ELSE InsertByPriority(SortByPriority(SubSeq(s, 1, Len(s) - 1)), s[Len(s)])

\* The slots Allocate gives one runner set out of the remaining capacity:
\* fit, then the minimum, then the configured cap.
StrictSlots(rs, remainingCPU, remainingMemory) ==
  LET fit == calculateMaxRunners(rs, remainingCPU, remainingMemory)
      withMin == IF rs.MinRunners > 0 /\ fit < rs.MinRunners THEN rs.MinRunners ELSE fit
  IN IF rs.ConfiguredMax > 0 /\ withMin > rs.ConfiguredMax THEN rs.ConfiguredMax ELSE withMin

\* The loop of Allocate with every runner set measured against the same capacity.
AllocateLoopFromFull(sorted, i, remainingCPU, remainingMemory) ==
  [k \in 1..(Len(sorted) + 1 - i) |->
     [Name |-> sorted[k + i - 1].Name,
      MaxRunners |-> StrictSlots(sorted[k + i - 1], remainingCPU, remainingMemory)]]

\* The loop of Allocate over the sorted runner sets, carrying the remaining capacity.
RECURSIVE AllocateLoop(_, _, _, _)
AllocateLoop(sorted, i, remainingCPU, remainingMemory) ==
  IF i > Len(sorted) THEN <<>>
  ELSE LET rs == sorted[i]
           maxRunners == StrictSlots(rs, remainingCPU, remainingMemory)
       IN <<[Name |-> rs.Name, MaxRunners |-> maxRunners]>> \o
          AllocateLoop(sorted, i + 1,
                       remainingCPU - maxRunners * rs.CPUMillis,
                       remainingMemory - maxRunners * rs.MemoryBytes)

\* Allocate: strict priority allocation, one allocation per runner set in sorted order.
Allocate(runnerSets, availableCPUMillis, availableMemoryBytes) ==
  AllocateLoop(SortByPriority(runnerSets), 1, availableCPUMillis, availableMemoryBytes)

\* The weight of a runner set in the fair share: a priority of 0 counts as 1.
PriorityWeight(rs) == IF rs.Priority = 0 THEN 1 ELSE rs.Priority

\* totalPriorityWeight: the sum of the weights of all runner sets.
RECURSIVE TotalPriorityWeight(_)
TotalPriorityWeight(runnerSets) ==
  IF runnerSets = <<>> THEN 0
  ELSE PriorityWeight(runnerSets[1]) + TotalPriorityWeight(Tail(runnerSets))

\* A first pass in which every runner set's share is the whole capacity.
FirstPassWholeCapacity(rs, availableCPUMillis, availableMemoryBytes, totalPriorityWeight) ==
  LET fit == calculateMaxRunners(rs, availableCPUMillis, availableMemoryBytes)
      cappedByMax == rs.ConfiguredMax > 0 /\ fit > rs.ConfiguredMax
      maxRunners == IF cappedByMax THEN rs.ConfiguredMax ELSE fit
  IN [runnerSet |-> rs, maxRunners |-> maxRunners,
      allocatedCPU |-> maxRunners * rs.CPUMillis,
      allocatedMemory |-> maxRunners * rs.MemoryBytes,
      cappedByMax |-> cappedByMax]

\* A first pass that hands out nothing: all capacity is left to the second pass.
FirstPassEmpty(rs, availableCPUMillis, availableMemoryBytes, totalPriorityWeight) ==
  [runnerSet |-> rs, maxRunners |-> 0, allocatedCPU |-> 0, allocatedMemory |-> 0,
   cappedByMax |-> FALSE]

\* First pass of AllocateFairShare for one runner set: the runners that fit in
\* its proportional share, capped by the configured maximum.
FirstPass(rs, availableCPUMillis, availableMemoryBytes, totalPriorityWeight) ==
  LET priority == PriorityWeight(rs)
      cpuShare == TruncDiv(availableCPUMillis * priority, totalPriorityWeight)
      memoryShare == TruncDiv(availableMemoryBytes * priority, totalPriorityWeight)
      fit == calculateMaxRunners(rs, cpuShare, memoryShare)
      cappedByMax == rs.ConfiguredMax > 0 /\ fit > rs.ConfiguredMax
      maxRunners == IF cappedByMax THEN rs.ConfiguredMax ELSE fit
  IN [runnerSet |-> rs, maxRunners |-> maxRunners,
      allocatedCPU |-> maxRunners * rs.CPUMillis,
      allocatedMemory |-> maxRunners * rs.MemoryBytes,
      cappedByMax |-> cappedByMax]

\* AllocateFairShare without the minimum enforcement.
EnforceMinimumSkipped(alloc) == alloc

\* Minimum enforcement of AllocateFairShare for one first-pass allocation.
EnforceMinimum(alloc) ==
  LET rs == alloc.runnerSet IN
  IF rs.MinRunners > 0 /\ alloc.maxRunners < rs.MinRunners
  THEN LET additional == rs.MinRunners - alloc.maxRunners
       IN [alloc EXCEPT !.maxRunners = rs.MinRunners,
                        !.allocatedCPU = @ + additional * rs.CPUMillis,
                        !.allocatedMemory = @ + additional * rs.MemoryBytes]
  ELSE alloc

RECURSIVE SumAllocatedCPU(_)
SumAllocatedCPU(allocations) ==
  IF allocations = <<>> THEN 0
  ELSE allocations[1].allocatedCPU + SumAllocatedCPU(Tail(allocations))

RECURSIVE SumAllocatedMemory(_)
SumAllocatedMemory(allocations) ==
  IF allocations = <<>> THEN 0
  ELSE allocations[1].allocatedMemory + SumAllocatedMemory(Tail(allocations))

\* sort.Slice on the copied allocations, by the priority and name of their runner set.
RECURSIVE InsertAllocation(_, _)
InsertAllocation(s, x) ==
  IF s = <<>> THEN <<x>>
  ELSE IF PriorityLess(x.runnerSet, s[Len(s)].runnerSet)
       THEN Append(InsertAllocation(SubSeq(s, 1, Len(s) - 1), x), s[Len(s)])
       ELSE Append(s, x)

RECURSIVE SortAllocations(_)
SortAllocations(s) ==
  IF s = <<>> THEN <<>>
  ELSE InsertAllocation(SortAllocations(SubSeq(s, 1, Len(s) - 1)), s[Len(s)])

\* The redistribution pass without "apply configured max cap".
MaxAdditionalUncapped(alloc, remainingCPU, remainingMemory) ==
  LET rs == alloc.runnerSet
  IN IF rs.ConfiguredMax > 0 /\ alloc.maxRunners >= rs.ConfiguredMax THEN 0
     ELSE calculateMaxRunners(rs, remainingCPU, remainingMemory)

\* A redistribution pass that gives a set at most one additional runner.
MaxAdditionalOne(alloc, remainingCPU, remainingMemory) ==
  LET rs == alloc.runnerSet
  IN IF rs.ConfiguredMax > 0 /\ alloc.maxRunners >= rs.ConfiguredMax THEN 0
     ELSE Min(1, calculateMaxRunners(rs, remainingCPU, remainingMemory))

\* The additional runners the redistribution pass gives one allocation
\* (0 when the set is skipped).
MaxAdditional(alloc, remainingCPU, remainingMemory) ==
  LET rs == alloc.runnerSet
      additionalRunners == calculateMaxRunners(rs, remainingCPU, remainingMemory)
  IN IF rs.ConfiguredMax > 0 /\ alloc.maxRunners >= rs.ConfiguredMax THEN 0
     ELSE IF additionalRunners = 0 THEN 0
     ELSE IF rs.ConfiguredMax > 0
          THEN Min(additionalRunners, rs.ConfiguredMax - alloc.maxRunners)
          ELSE additionalRunners

\* "Update the original allocation": the first entry with the same name is replaced.
RECURSIVE UpdateOriginal(_, _, _)
UpdateOriginal(allocations, j, alloc) ==
  IF j > Len(allocations) THEN allocations
  ELSE IF allocations[j].runnerSet.Name = alloc.runnerSet.Name
       THEN [allocations EXCEPT ![j] = alloc]
       ELSE UpdateOriginal(allocations, j + 1, alloc)

\* The redistribution loop over the sorted copy of the allocations.
RECURSIVE RedistributeLoop(_, _, _, _, _)
RedistributeLoop(sortedAllocations, i, allocations, remainingCPU, remainingMemory) ==
  IF i > Len(sortedAllocations) THEN allocations
  ELSE LET alloc == sortedAllocations[i]
           rs == alloc.runnerSet
           maxAdditional == MaxAdditional(alloc, remainingCPU, remainingMemory)
           additionalCPU == maxAdditional * rs.CPUMillis
           additionalMemory == maxAdditional * rs.MemoryBytes
           raised == [alloc EXCEPT !.maxRunners = @ + maxAdditional,
                                   !.allocatedCPU = @ + additionalCPU,
                                   !.allocatedMemory = @ + additionalMemory]
       IN IF maxAdditional > 0
          THEN RedistributeLoop(sortedAllocations, i + 1,
                                UpdateOriginal(allocations, 1, raised),
                                remainingCPU - additionalCPU,
                                remainingMemory - additionalMemory)
          ELSE RedistributeLoop(sortedAllocations, i + 1, allocations,
                                remainingCPU, remainingMemory)

\* The allocations of AllocateFairShare after the first pass and the minimum
\* enforcement (totalPriorityWeight # 0).
AfterMinimums(runnerSets, availableCPUMillis, availableMemoryBytes) ==
  LET totalPriorityWeight == TotalPriorityWeight(runnerSets)
  IN [i \in 1..Len(runnerSets) |->
        EnforceMinimum(FirstPass(runnerSets[i], availableCPUMillis,
                                 availableMemoryBytes, totalPriorityWeight))]

\* AllocateFairShare without its second pass.
RedistributeSkipped(allocations, availableCPUMillis, availableMemoryBytes) == allocations

\* Second pass of AllocateFairShare: unused capacity is handed out once, in
\* priority order, when some of it is left.
Redistribute(allocations, availableCPUMillis, availableMemoryBytes) ==
  LET remainingCPU == availableCPUMillis - SumAllocatedCPU(allocations)
      remainingMemory == availableMemoryBytes - SumAllocatedMemory(allocations)
  IN IF remainingCPU > 0 \/ remainingMemory > 0
     THEN RedistributeLoop(SortAllocations(allocations), 1, allocations,
                           remainingCPU, remainingMemory)
     ELSE allocations

\* AllocateFairShare: panic is TRUE when the division by a total weight of zero
\* stops the call; otherwise allocs holds one allocation per entry, in input order.
AllocateFairShare(runnerSets, availableCPUMillis, availableMemoryBytes) ==
  IF Len(runnerSets) = 0 THEN [panic |-> FALSE, allocs |-> <<>>]
  ELSE IF TotalPriorityWeight(runnerSets) = 0 THEN [panic |-> TRUE, allocs |-> <<>>]
  ELSE LET allocations ==
             Redistribute(AfterMinimums(runnerSets, availableCPUMillis, availableMemoryBytes),
                          availableCPUMillis, availableMemoryBytes)
       IN [panic |-> FALSE,
           allocs |-> [i \in 1..Len(allocations) |->
                         [Name |-> allocations[i].runnerSet.Name,
                          MaxRunners |-> allocations[i].maxRunners]]]

(***************************************************************************)
(* Quantities and the resource extractor                                   *)
(***************************************************************************)

\* A resource.Quantity is kept as its number of thousandths: MilliValue is
\* exact, Value rounds up to whole units.
MilliValue(q) == q
Value(q) == (q + 999) \div 1000

\* The annotation strings of the model, each with its characters in order.
Spelling ==
  ("" :> <<>>) @@ ("0" :> <<"0">>) @@ ("1" :> <<"1">>) @@ ("2" :> <<"2">>) @@
  ("3" :> <<"3">>) @@ ("4" :> <<"4">>) @@
  ("2000" :> <<"2", "0", "0", "0">>) @@ ("-1" :> <<"-", "1">>) @@
  ("1m" :> <<"1", "m">>) @@ ("2m" :> <<"2", "m">>) @@
  ("2000m" :> <<"2", "0", "0", "0", "m">>) @@
  ("1500m" :> <<"1", "5", "0", "0", "m">>) @@ ("1k" :> <<"1", "k">>) @@
  ("2Ki" :> <<"2", "K", "i">>) @@ ("512Mi" :> <<"5", "1", "2", "M", "i">>) @@
  ("1Gi" :> <<"1", "G", "i">>) @@ ("abc" :> <<"a", "b", "c">>) @@
  ("high" :> <<"h", "i", "g", "h">>) @@ ("many" :> <<"m", "a", "n", "y">>) @@
  ("2x" :> <<"2", "x">>) @@ ("Gi" :> <<"G", "i">>)

DigitValue ==
  ("0" :> 0) @@ ("1" :> 1) @@ ("2" :> 2) @@ ("3" :> 3) @@ ("4" :> 4) @@
  ("5" :> 5) @@ ("6" :> 6) @@ ("7" :> 7) @@ ("8" :> 8) @@ ("9" :> 9)

\* the value of a sequence of decimal digits
RECURSIVE DigitsValue(_)
DigitsValue(cs) ==
  IF cs = <<>> THEN 0
  ELSE DigitsValue(SubSeq(cs, 1, Len(cs) - 1)) * 10 + DigitValue[cs[Len(cs)]]

\* the number of digits a sequence of characters starts with
RECURSIVE LeadingDigits(_)
LeadingDigits(cs) ==
  IF cs = <<>> \/ cs[1] \notin DOMAIN DigitValue THEN 0
  ELSE 1 + LeadingDigits(Tail(cs))

HasSign(cs) == cs # <<>> /\ cs[1] \in {"+", "-"}
Unsigned(cs) == IF HasSign(cs) THEN Tail(cs) ELSE cs
Signed(cs, n) == IF HasSign(cs) /\ cs[1] = "-" THEN 0 - n ELSE n

\* strconv.ParseInt(value, 10, 64) and strconv.Atoi: an optional sign followed
\* by decimal digits and nothing else.
ParseInt(cs) ==
  LET body == Unsigned(cs)
  IN IF body # <<>> /\ LeadingDigits(body) = Len(body)
     THEN [ok |-> TRUE, val |-> Signed(cs, DigitsValue(body))]
     ELSE [ok |-> FALSE, val |-> 0]

\* the suffixes of resource.ParseQuantity the model knows, with their multipliers
SuffixMultiplier(suffix) ==
  CASE suffix = <<>> -> 1
    [] suffix = <<"k">> -> 1000
    [] suffix = <<"M">> -> 1000 * 1000
    [] suffix = <<"K", "i">> -> 1024
    [] suffix = <<"M", "i">> -> 1024 * 1024
    [] suffix = <<"G", "i">> -> 1024 * 1024 * 1024
    [] OTHER -> 0

\* resource.ParseQuantity for whole numbers: an optional sign, decimal digits and
\* a suffix (none, m, k, M, Ki, Mi, Gi).
ParseQuantity(cs) ==
  LET body == Unsigned(cs)
      n == LeadingDigits(body)
      suffix == SubSeq(body, n + 1, Len(body))
  IN IF n > 0 /\ (suffix = <<"m">> \/ SuffixMultiplier(suffix) > 0)
     THEN [ok |-> TRUE, negative |-> Signed(cs, 1) < 0,
           number |-> DigitsValue(SubSeq(body, 1, n)), suffix |-> suffix]
     ELSE [ok |-> FALSE, negative |-> FALSE, number |-> 0, suffix |-> <<>>]

\* Quantity.MilliValue of a parsed quantity: its number of thousandths.
ParsedMilliValue(q) ==
  LET magnitude == IF q.suffix = <<"m">> THEN q.number
                   ELSE q.number * SuffixMultiplier(q.suffix) * 1000
  IN IF q.negative THEN 0 - magnitude ELSE magnitude

\* Quantity.Value of a parsed quantity: its number of units, rounded up.
ParsedValue(q) ==
  IF q.suffix = <<"m">>
  THEN (IF q.negative THEN 0 - (q.number \div 1000) ELSE (q.number + 999) \div 1000)
  ELSE (IF q.negative THEN 0 - q.number * SuffixMultiplier(q.suffix)
        ELSE q.number * SuffixMultiplier(q.suffix))

\* The strings strconv.Atoi accepts, with their values.
DecimalStrings ==
  [s \in {t \in DOMAIN Spelling : ParseInt(Spelling[t]).ok} |-> ParseInt(Spelling[s]).val]

\* parseResourceQuantityOrInt with the quantity taken as a raw integer only.
parseResourceQuantityOrIntRawOnly(value, isCPU) == ParseInt(Spelling[value])

\* parseResourceQuantityOrInt: a raw integer is returned as it is; otherwise the
\* value is parsed as a quantity (millicores for CPU, bytes for memory).
parseResourceQuantityOrInt(value, isCPU) ==
  LET intVal == ParseInt(Spelling[value])
      q == ParseQuantity(Spelling[value])
  IN IF intVal.ok THEN [ok |-> TRUE, val |-> intVal.val]
     ELSE IF q.ok
          THEN [ok |-> TRUE, val |-> IF isCPU THEN ParsedMilliValue(q) ELSE ParsedValue(q)]
          ELSE [ok |-> FALSE, val |-> 0]

\* extractCPUFromPodSpec: the CPU request of a container named "runner".
RECURSIVE extractCPUFromPodSpec(_)
extractCPUFromPodSpec(containers) ==
  IF containers = <<>> THEN [ok |-> FALSE, val |-> 0]
  ELSE IF containers[1].Name = "runner" /\ containers[1].cpu # Nil
       THEN [ok |-> TRUE, val |-> MilliValue(containers[1].cpu[1])]
       ELSE extractCPUFromPodSpec(Tail(containers))

\* extractMemoryFromPodSpec: the memory request of a container named "runner".
RECURSIVE extractMemoryFromPodSpec(_)
extractMemoryFromPodSpec(containers) ==
  IF containers = <<>> THEN [ok |-> FALSE, val |-> 0]
  ELSE IF containers[1].Name = "runner" /\ containers[1].memory # Nil
       THEN [ok |-> TRUE, val |-> Value(containers[1].memory[1])]
       ELSE extractMemoryFromPodSpec(Tail(containers))

\* The opt-in test of ExtractRunnerSetResources.
AutoscalingEnabled(rs) == rs.Annotations.enabled = "true"

\* ExtractRunnerSetResources with the pod template asked before the annotations.
ExtractRunnerSetResourcesTemplateFirst(rs) ==
  LET ann == rs.Annotations
      max == IF rs.MaxRunners # Nil THEN rs.MaxRunners[1] ELSE 0
      podCPU == extractCPUFromPodSpec(rs.Containers)
      podMemory == extractMemoryFromPodSpec(rs.Containers)
      cpu == IF podCPU.ok \/ ann.cpu = Absent THEN podCPU
             ELSE parseResourceQuantityOrInt(ann.cpu, TRUE)
      mem == IF podMemory.ok \/ ann.memory = Absent THEN podMemory
             ELSE parseResourceQuantityOrInt(ann.memory, FALSE)
      priority == IF ann.priority # Absent THEN ann.priority ELSE "0"
      res == [Name |-> rs.Name,
              CPUMillis |-> cpu.val, MemoryBytes |-> mem.val,
              Priority |-> IF priority \in DOMAIN DecimalStrings
                           THEN DecimalStrings[priority] ELSE 0,
              MinRunners |-> 0,
              CurrentMax |-> max, ConfiguredMax |-> max]
  IN IF ~AutoscalingEnabled(rs) THEN [err |-> "not enabled", res |-> res]
     ELSE IF priority \notin DOMAIN DecimalStrings THEN [err |-> "invalid priority", res |-> res]
     ELSE IF ~cpu.ok THEN [err |-> "CPU not specified", res |-> res]
     ELSE IF ~mem.ok THEN [err |-> "memory not specified", res |-> res]
     ELSE [err |-> "", res |-> res]

\* ExtractRunnerSetResources: err is "" when the runner set is accepted, and
\* otherwise names the error returned.  The min-runners annotation is not read,
\* so MinRunners keeps its zero value.
ExtractRunnerSetResources(rs) ==
  LET ann == rs.Annotations
      max == IF rs.MaxRunners # Nil THEN rs.MaxRunners[1] ELSE 0
      cpu == IF ann.cpu # Absent THEN parseResourceQuantityOrInt(ann.cpu, TRUE)
             ELSE extractCPUFromPodSpec(rs.Containers)
      mem == IF ann.memory # Absent THEN parseResourceQuantityOrInt(ann.memory, FALSE)
             ELSE extractMemoryFromPodSpec(rs.Containers)
      priority == IF ann.priority # Absent THEN ann.priority ELSE "0"
      res == [Name |-> rs.Name,
              CPUMillis |-> cpu.val, MemoryBytes |-> mem.val,
              Priority |-> IF priority \in DOMAIN DecimalStrings
                           THEN DecimalStrings[priority] ELSE 0,
              MinRunners |-> 0,
              CurrentMax |-> max, ConfiguredMax |-> max]
  IN IF ~AutoscalingEnabled(rs) THEN [err |-> "not enabled", res |-> res]
     ELSE IF priority \notin DOMAIN DecimalStrings THEN [err |-> "invalid priority", res |-> res]
     ELSE IF ~cpu.ok
          THEN [err |-> IF ann.cpu # Absent THEN "invalid CPU annotation"
                        ELSE "CPU not specified",
                res |-> res]
     ELSE IF ~mem.ok
          THEN [err |-> IF ann.memory # Absent THEN "invalid memory annotation"
                        ELSE "memory not specified",
                res |-> res]
     ELSE [err |-> "", res |-> res]

(***************************************************************************)
(* Capacity calculator                                                     *)
(***************************************************************************)

\* a node counted unless its Ready condition is False
isNodeReadyUnlessFalse(node) == node.Ready # "False"

\* isNodeReady: the status of the node's Ready condition is True.
isNodeReady(node) == node.Ready = "True"

\* a runner pod recognised by its scale-set label alone
isRunnerPodByScaleSetLabel(pod) == pod.scaleSetName # ""

\* isRunnerPod: the labels that mark a runner pod.
isRunnerPod(pod) == pod.scaleSetName # "" \/ pod.component = "runner"

\* getClusterCapacity: allocatable CPU and memory summed over the ready nodes.
RECURSIVE getClusterCapacity(_)
getClusterCapacity(nodeList) ==
  IF nodeList = <<>> THEN [cpu |-> 0, memory |-> 0]
  ELSE LET rest == getClusterCapacity(Tail(nodeList))
           node == nodeList[1]
       IN IF isNodeReady(node)
          THEN [cpu |-> rest.cpu + MilliValue(node.cpu),
                memory |-> rest.memory + Value(node.memory)]
          ELSE rest

\* getCurrentUsage: requests summed over the pods that are neither terminated
\* nor runner pods.
RECURSIVE getCurrentUsage(_)
getCurrentUsage(podList) ==
  IF podList = <<>> THEN [cpu |-> 0, memory |-> 0]
  ELSE LET rest == getCurrentUsage(Tail(podList))
           pod == podList[1]
       IN IF pod.Phase \in {"Succeeded", "Failed"} \/ isRunnerPod(pod)
          THEN rest
          ELSE [cpu |-> rest.cpu + MilliValue(pod.cpu),
                memory |-> rest.memory + Value(pod.memory)]

\* the buffers applied to total minus used as it is
CalculateUnclamped(nodeList, podList, cpuBufferPercent, memBufferPercent) ==
  LET total == getClusterCapacity(nodeList)
      used == getCurrentUsage(podList)
  IN [TotalCPUMillis |-> total.cpu, TotalMemoryBytes |-> total.memory,
      UsedCPUMillis |-> used.cpu, UsedMemoryBytes |-> used.memory,
      AvailableCPUMillis |->
        TruncDiv((total.cpu - used.cpu) * (100 - cpuBufferPercent), 100),
      AvailableMemoryBytes |->
        TruncDiv((total.memory - used.memory) * (100 - memBufferPercent), 100)]

\* Calculate: the ClusterCapacity with the safety buffers applied.
Calculate(nodeList, podList, cpuBufferPercent, memBufferPercent) ==
  LET total == getClusterCapacity(nodeList)
      used == getCurrentUsage(podList)
      rawAvailableCPU == Max(total.cpu - used.cpu, 0)
      rawAvailableMemory == Max(total.memory - used.memory, 0)
  IN [TotalCPUMillis |-> total.cpu, TotalMemoryBytes |-> total.memory,
      UsedCPUMillis |-> used.cpu, UsedMemoryBytes |-> used.memory,
      AvailableCPUMillis |-> TruncDiv(rawAvailableCPU * (100 - cpuBufferPercent), 100),
      AvailableMemoryBytes |-> TruncDiv(rawAvailableMemory * (100 - memBufferPercent), 100)]

(***************************************************************************)
(* Reconciler                                                              *)
(***************************************************************************)

\* metav1.NamespaceAll: the scope of a List call without namespace option
NamespaceAll == ""

\* The List calls listRunnerSets makes, each named by its scope.
ListCalls(namespaces) ==
  IF namespaces = <<>> THEN {NamespaceAll}
  ELSE {namespaces[i] : i \in 1..Len(namespaces)}

\* the runner sets of one namespace, in stored order
RECURSIVE InNamespace(_, _)
InNamespace(stored, namespace) ==
  IF stored = <<>> THEN <<>>
  ELSE (IF stored[1].Namespace = namespace THEN <<stored[1]>> ELSE <<>>)
       \o InNamespace(Tail(stored), namespace)

\* The loop of listRunnerSets over the configured namespaces: a namespace whose
\* List call fails is logged and left out.
RECURSIVE ListEachNamespace(_, _, _, _)
ListEachNamespace(stored, namespaces, i, failedLists) ==
  IF i > Len(namespaces) THEN <<>>
  ELSE (IF namespaces[i] \in failedLists THEN <<>>
        ELSE InNamespace(stored, namespaces[i]))
       \o ListEachNamespace(stored, namespaces, i + 1, failedLists)

\* listRunnerSets: one List call over all namespaces when none is configured,
\* whose failure is returned; otherwise one List call per configured namespace.
listRunnerSets(stored, namespaces, failedLists) ==
  IF Len(namespaces) = 0
  THEN IF NamespaceAll \in failedLists
       THEN [err |-> TRUE, items |-> <<>>]
       ELSE [err |-> FALSE, items |-> stored]
  ELSE [err |-> FALSE, items |-> ListEachNamespace(stored, namespaces, 1, failedLists)]

\* Step 3 of ReconcileOnce: the resources of the runner sets that pass extraction,
\* in listing order.
RECURSIVE EnabledRunnerSets(_)
EnabledRunnerSets(runnerSets) ==
  IF runnerSets = <<>> THEN <<>>
  ELSE LET x == ExtractRunnerSetResources(runnerSets[1])
       IN (IF x.err = "" THEN <<x.res>> ELSE <<>>) \o EnabledRunnerSets(Tail(runnerSets))

\* Step 4 of ReconcileOnce: the allocator the reconciler calls.
ReconcilerAllocations(enabledRunnerSets, capacity) ==
  Allocate(enabledRunnerSets, capacity.AvailableCPUMillis, capacity.AvailableMemoryBytes)

\* "Find the corresponding runner set": the index of the first listed runner set
\* with the allocation's name, 0 when there is none.
RECURSIVE FindRunnerSet(_, _, _)
FindRunnerSet(runnerSets, i, name) ==
  IF i > Len(runnerSets) THEN 0
  ELSE IF runnerSets[i].Name = name THEN i
  ELSE FindRunnerSet(runnerSets, i + 1, name)

\* ReconcileOnce without the safety check.
SafetyFloorSkipped(allocated, currentlyRunning) == allocated

\* The safety check: never below the currently running count.
SafetyFloor(allocated, currentlyRunning) ==
  IF allocated < currentlyRunning THEN currentlyRunning ELSE allocated

\* Step 5 of ReconcileOnce with an update for every allocation whose runner set
\* is found, changed or not.
RECURSIVE IntendedUpdatesWithoutSkip(_, _, _)
IntendedUpdatesWithoutSkip(allocations, k, runnerSets) ==
  IF k > Len(allocations) THEN <<>>
  ELSE LET alloc == allocations[k]
           idx == FindRunnerSet(runnerSets, 1, alloc.Name)
           rest == IntendedUpdatesWithoutSkip(allocations, k + 1, runnerSets)
       IN IF idx = 0 THEN rest
          ELSE LET runnerSet == runnerSets[idx]
                   currentMax == IF runnerSet.MaxRunners # Nil THEN runnerSet.MaxRunners[1] ELSE 0
               IN <<[Index |-> idx, Namespace |-> runnerSet.Namespace,
                     Name |-> alloc.Name, Allocated |-> alloc.MaxRunners,
                     OldMax |-> currentMax,
                     NewMax |-> SafetyFloor(alloc.MaxRunners, runnerSet.CurrentRunners)]>>
                  \o rest

\* Step 5 of ReconcileOnce up to the decision to update: one entry per allocation
\* whose new value differs from the current maxRunners of the runner set found.
RECURSIVE IntendedUpdates(_, _, _)
IntendedUpdates(allocations, k, runnerSets) ==
  IF k > Len(allocations) THEN <<>>
  ELSE LET alloc == allocations[k]
           idx == FindRunnerSet(runnerSets, 1, alloc.Name)
           rest == IntendedUpdates(allocations, k + 1, runnerSets)
       IN IF idx = 0 THEN rest
          ELSE LET runnerSet == runnerSets[idx]
                   currentMax == IF runnerSet.MaxRunners # Nil THEN runnerSet.MaxRunners[1] ELSE 0
                   currentlyRunning == runnerSet.CurrentRunners
                   newMax == SafetyFloor(alloc.MaxRunners, currentlyRunning)
               IN IF currentMax = newMax THEN rest
                  ELSE <<[Index |-> idx, Namespace |-> runnerSet.Namespace,
                          Name |-> alloc.Name, Allocated |-> alloc.MaxRunners,
                          OldMax |-> currentMax, NewMax |-> newMax]>> \o rest

\* ReconcileOnce patching whatever the mode.
PatchCallsInAnyMode(dryRun, updates) == updates

\* The updates for which ReconcileOnce calls updateRunnerSet: none in dry-run mode.
PatchCalls(dryRun, updates) == IF dryRun THEN <<>> ELSE updates

\* The updates ReconcileOnce only logs: all of them in dry-run mode.
DryRunReports(dryRun, updates) == IF dryRun THEN updates ELSE <<>>

\* the stored object a patch addresses: by namespace and name
ObjectIndex(stored, namespace, name) ==
  CHOOSE i \in 1..Len(stored) : stored[i].Namespace = namespace /\ stored[i].Name = name

\* updateRunnerSet for the updates of one tick, in order: a patch that succeeds
\* sets maxRunners of the stored record; a failed patch changes nothing.
RECURSIVE ApplyPatches(_, _, _)
ApplyPatches(stored, updates, failing) ==
  IF updates = <<>> THEN stored
  ELSE LET u == updates[1]
           i == ObjectIndex(stored, u.Namespace, u.Name)
       IN ApplyPatches(IF i \in failing THEN stored
                       ELSE [stored EXCEPT ![i].MaxRunners = Some(u.NewMax)],
                       Tail(updates), failing)

(***************************************************************************)
(* The allocator on its own: inputs drawn from bounded sets, one action    *)
(* per allocation algorithm.                                               *)
(***************************************************************************)
VARIABLES inSets, inCPU, inMemory, out

allocVars == <<inSets, inCPU, inMemory, out>>

\* The cluster (runner sets, nodes, pods), the configuration, and the record of
\* the last tick: the listing it read, the capacity it computed, the patch calls
\* it issued, the changes it reported in dry-run mode and how it ended.
\* History: original is the maxRunners each runner set started with, exceeded
\* whether its running count has ever been above that value, and streak the
\* number (up to 2) of live ticks in a row whose patches all succeeded, with no
\* change of the cluster by others in between.
VARIABLES runnerSetList, nodes, pods, config,
          listed, capacity, patched, reported, tickResult,
          original, exceeded, streak

\* failedCalls: the List calls that failed in the last tick ("nodes", "pods", or
\* the scope of a List call for runner sets).
VARIABLE failedCalls

clusterVars == <<runnerSetList, nodes, pods>>
tickVars == <<listed, capacity, patched, reported, tickResult, failedCalls>>
reconcilerVars == <<runnerSetList, nodes, pods, config,
                    listed, capacity, patched, reported, tickResult, original, exceeded, streak,
                    failedCalls>>

\* The process: pc is the position of Run ("idle" when the loop is not under
\* study, "start", "initialTick" and "periodicTick" while ReconcileOnce runs,
\* "select" at the select statement, "returned", and "exited" when run() is
\* over), ctxErr the error of the context ("nil" until it is cancelled),
\* tickerRunning whether the ticker exists and has not been stopped, tickerC
\* whether a fire waits in the ticker's channel (of capacity 1), runErr what Run
\* returned and exitCode the exit code of the process (-1 while it runs).
VARIABLES pc, ctxErr, tickerRunning, tickerC, runErr, exitCode

\* the number of calls of ReconcileOnce that have started and not returned
VARIABLE inProgress

runVars == <<pc, ctxErr, tickerRunning, tickerC, runErr, exitCode, inProgress>>

vars == <<inSets, inCPU, inMemory, out, runnerSetList, nodes, pods, config,
          listed, capacity, patched, reported, tickResult, original, exceeded, streak,
          failedCalls, pc, ctxErr, tickerRunning, tickerC, runErr, exitCode,
          inProgress>>

\* per-runner cost (CPU, memory), priorities, minimums and caps of the inputs
CostVals == {<<1, 1>>, <<2, 1>>, <<1, 2>>, <<0, 1>>, <<1, 0 - 1>>}
PriorityVals == {0 - 1, 0, 2}
MinVals == {0, 2}
CapVals == {0, 1, 3}
AllocNames == {"alpha", "zebra"}

ResourcesOf(name, cost, priority, minRunners, configuredMax) ==
  [Name |-> name, CPUMillis |-> cost[1], MemoryBytes |-> cost[2],
   Priority |-> priority, MinRunners |-> minRunners,
   CurrentMax |-> configuredMax, ConfiguredMax |-> configuredMax]

InputSets == {ResourcesOf(n, c, p, m, x) :
                n \in AllocNames, c \in CostVals, p \in PriorityVals,
                m \in MinVals, x \in CapVals}

\* the lists of one or two runner sets with distinct names
InputLists ==
  {<<a>> : a \in InputSets} \cup
  {<<p[1], p[2]>> : p \in {q \in InputSets \X InputSets : q[1].Name # q[2].Name}}

\* DefaultConfig: the buffers the controller runs with
DefaultCPUBufferPercent == 10
DefaultMemoryBufferPercent == 10

\* the capacity recorded while no tick has computed one
NoCapacity ==
  [TotalCPUMillis |-> 0, TotalMemoryBytes |-> 0, UsedCPUMillis |-> 0,
   UsedMemoryBytes |-> 0, AvailableCPUMillis |-> 0, AvailableMemoryBytes |-> 0]

\* the loop of Run is not under study
RunIdle ==
  /\ pc = "idle" /\ ctxErr = "nil" /\ tickerRunning = FALSE /\ tickerC = FALSE
  /\ runErr = "none" /\ exitCode = 0 - 1 /\ inProgress = 0

\* the reconciler's variables while the allocator is exercised on its own
ReconcilerIdle ==
  /\ runnerSetList = <<>> /\ nodes = <<>> /\ pods = <<>>
  /\ config = [DryRun |-> FALSE, CPUBufferPercent |-> DefaultCPUBufferPercent,
               MemoryBufferPercent |-> DefaultMemoryBufferPercent, Namespaces |-> <<>>]
  /\ failedCalls = {}
  /\ listed = <<>> /\ capacity = NoCapacity /\ patched = <<>> /\ reported = <<>>
  /\ tickResult = "none" /\ original = <<>> /\ exceeded = <<>> /\ streak = 0

\* Inputs of the allocator's tests, with memory counted in Mi so that the
\* numbers stay within 32 bits: "sufficient capacity for all runner sets" of
\* Allocate and "configured max caps prevent overallocation" of AllocateFairShare.
TestSufficientCapacity ==
  [sets |-> <<ResourcesOf("low-priority", <<1000, 2048>>, 1, 0, 10),
              ResourcesOf("high-priority", <<2000, 4096>>, 10, 0, 5),
              ResourcesOf("medium-priority", <<1000, 2048>>, 5, 0, 8)>>,
   cpu |-> 20000, memory |-> 40960]
TestCapsPreventOverallocation ==
  [sets |-> <<ResourcesOf("high", <<1000, 2048>>, 400, 0, 2),
              ResourcesOf("low", <<1000, 2048>>, 100, 0, 20)>>,
   cpu |-> 10000, memory |-> 20480]
\* "negative memory should be treated as zero" of calculateMaxRunners, and 8 CPUs
\* for a runner of 3 CPUs with memory to spare
TestNegativeMemory ==
  [sets |-> <<ResourcesOf("alpha", <<1000, 1024>>, 0, 0, 0)>>,
   cpu |-> 10000, memory |-> 0 - 1024]
TestEightForThree ==
  [sets |-> <<ResourcesOf("alpha", <<3000, 1024>>, 0, 0, 0)>>,
   cpu |-> 8000, memory |-> 102400]
\* "fair distribution with different priorities" (memory counted in Mi)
TestFairDistribution ==
  [sets |-> <<ResourcesOf("low", <<1000, 2048>>, 100, 0, 20),
              ResourcesOf("high", <<1000, 2048>>, 400, 0, 20),
              ResourcesOf("medium", <<1000, 2048>>, 200, 0, 20)>>,
   cpu |-> 14000, memory |-> 28672]
TestInputs ==
  {TestSufficientCapacity, TestCapsPreventOverallocation, TestNegativeMemory,
   TestEightForThree, TestFairDistribution}

AllocInit ==
  /\ \/ /\ inSets \in InputLists
        /\ inCPU \in (0 - 1)..MaxAvail
        /\ inMemory \in 0..MaxAvail
     \/ \E t \in TestInputs : inSets = t.sets /\ inCPU = t.cpu /\ inMemory = t.memory
  /\ out = [kind |-> "none", panic |-> FALSE, allocs |-> <<>>]
  /\ ReconcilerIdle
  /\ RunIdle

RunAllocate ==
  /\ out' = [kind |-> "strict", panic |-> FALSE,
             allocs |-> Allocate(inSets, inCPU, inMemory)]
  /\ UNCHANGED <<inSets, inCPU, inMemory>>
  /\ UNCHANGED reconcilerVars
  /\ UNCHANGED runVars

RunAllocateFairShare ==
  /\ LET r == AllocateFairShare(inSets, inCPU, inMemory)
     IN out' = [kind |-> "fair", panic |-> r.panic, allocs |-> r.allocs]
  /\ UNCHANGED <<inSets, inCPU, inMemory>>
  /\ UNCHANGED reconcilerVars
  /\ UNCHANGED runVars

AllocNext == RunAllocate \/ RunAllocateFairShare

SpecAlloc == AllocInit /\ [][AllocNext]_vars

(***************************************************************************)
(* The controller in a cluster: ticks of ReconcileOnce interleaved with    *)
(* changes of the cluster made by others.                                  *)
(***************************************************************************)

AnnotationsOf(enabled, priority, cpu, memory, minRunners) ==
  [enabled |-> enabled, priority |-> priority, cpu |-> cpu, memory |-> memory,
   minRunners |-> minRunners]

\* The runner sets of the cluster, in the order a cluster-wide List returns them
\* (by namespace, then by name).
\* ci/alpha: configured by annotations (1 millicore, 1 byte), priority 2.
AlphaChoices ==
  {[Namespace |-> "ci", Name |-> "alpha",
    Annotations |-> AnnotationsOf(e, "2", "1", "1", Absent),
    Containers |-> <<>>] : e \in {"true", Absent}}

\* ci/zebra: configured by annotations (1 millicore, 1 byte), priority 1, and
\* annotated with min-runners 2.
ZebraChoices ==
  {[Namespace |-> "ci", Name |-> "zebra",
    Annotations |-> AnnotationsOf(e, "1", "1m", "1", "2"),
    Containers |-> <<>>] : e \in {"true", "false"}}

\* dev/alpha: the name of ci/alpha in another namespace, resources from the pod
\* template (2 millicores, 1 byte), default priority.
DevAlphaChoices ==
  {[Namespace |-> "dev", Name |-> "alpha",
    Annotations |-> AnnotationsOf(e, Absent, Absent, Absent, Absent),
    Containers |-> <<[Name |-> "init", cpu |-> Some(1), memory |-> Nil],
                     [Name |-> "runner", cpu |-> Some(2), memory |-> Some(1000)]>>] :
    e \in {"true", "false"}}

\* the cluster holds ci/alpha and either ci/zebra or dev/alpha
Layouts ==
  {<<a, z>> : a \in AlphaChoices, z \in ZebraChoices} \cup
  {<<a, d>> : a \in AlphaChoices, d \in DevAlphaChoices}

InitialMax == {Nil, Some(1), Some(2)}

\* a running count above the maxRunners a runner set started with
Exceeds(currentRunners, originalMax) ==
  originalMax # Nil /\ currentRunners > originalMax[1]

WithState(rs, maxRunners, currentRunners) ==
  [Namespace |-> rs.Namespace, Name |-> rs.Name, Annotations |-> rs.Annotations,
   Containers |-> rs.Containers, MaxRunners |-> maxRunners,
   CurrentRunners |-> currentRunners]

\* The state after construction, for given runner sets and namespace lists.
ClusterInitFor(layouts, namespaceLists) ==
  /\ \E l \in layouts, m \in [1..2 -> InitialMax], r \in [1..2 -> 0..MaxRunning] :
       runnerSetList = [i \in 1..2 |-> WithState(l[i], m[i], r[i])]
  /\ nodes \in {<<[Name |-> "node1", cpu |-> 5, memory |-> 5000, Ready |-> r]>> :
                  r \in {"True", "False"}}
  /\ pods = <<[Name |-> "workload", Phase |-> "Running", scaleSetName |-> "",
               component |-> "", cpu |-> 3, memory |-> 3000],
              [Name |-> "runner-1", Phase |-> "Running", scaleSetName |-> "alpha",
               component |-> "", cpu |-> 1, memory |-> 1000]>>
  /\ config \in {[DryRun |-> d, CPUBufferPercent |-> DefaultCPUBufferPercent,
                    MemoryBufferPercent |-> DefaultMemoryBufferPercent,
                    Namespaces |-> ns] : d \in BOOLEAN, ns \in namespaceLists}
  /\ listed = <<>> /\ capacity = NoCapacity /\ patched = <<>> /\ reported = <<>>
  /\ tickResult = "none" /\ failedCalls = {}
  /\ original = [i \in 1..2 |-> runnerSetList[i].MaxRunners]
  /\ exceeded = [i \in 1..2 |-> Exceeds(runnerSetList[i].CurrentRunners, original[i])]
  /\ streak = 0
  /\ inSets = <<>> /\ inCPU = 0 /\ inMemory = 0
  /\ out = [kind |-> "none", panic |-> FALSE, allocs |-> <<>>]

\* run() builds the configuration from DefaultConfig: no namespaces, so runner
\* sets are listed cluster-wide.
ClusterInit == ClusterInitFor(Layouts, {<<>>})

Init == ClusterInit /\ RunIdle

\* the patches of a tick that fail: none, or those against one runner set
FailChoices == {{}} \cup {{i} : i \in 1..2}

\* The updates ReconcileOnce decides on for a listing and a capacity.
TickUpdates(runnerSets, cap) ==
  LET enabledRunnerSets == EnabledRunnerSets(runnerSets)
  IN IF Len(runnerSets) = 0 \/ Len(enabledRunnerSets) = 0 THEN <<>>
     ELSE IntendedUpdates(ReconcilerAllocations(enabledRunnerSets, cap), 1, runnerSets)

\* One call of ReconcileOnce.  A failure to list nodes, pods or runner sets ends
\* it with an error before anything is patched.
ReconcileOnceCall ==
  \E fault \in {"none", "nodes", "pods"},
     failedLists \in SUBSET ListCalls(config.Namespaces) :
    /\ fault # "none" => failedLists = {}
    /\ failedCalls' = IF fault # "none" THEN {fault} ELSE failedLists
    /\ \E ls \in {listRunnerSets(runnerSetList, config.Namespaces, failedLists)} :
         IF fault # "none" \/ ls.err
         THEN /\ tickResult' = "error"
              /\ listed' = <<>> /\ capacity' = NoCapacity
              /\ patched' = <<>> /\ reported' = <<>>
              /\ streak' = 0
              /\ UNCHANGED runnerSetList
         ELSE \E cap \in {Calculate(nodes, pods, config.CPUBufferPercent,
                                    config.MemoryBufferPercent)} :
              \E updates \in {TickUpdates(ls.items, cap)} :
              \E failing \in FailChoices :
                LET calls == PatchCalls(config.DryRun, updates)
                    failed == {k \in 1..Len(calls) :
                                 ObjectIndex(runnerSetList, calls[k].Namespace,
                                             calls[k].Name) \in failing}
                IN /\ tickResult' = "ok"
                   /\ listed' = ls.items
                   /\ capacity' = cap
                   /\ reported' = DryRunReports(config.DryRun, updates)
                   /\ patched' = [k \in 1..Len(calls) |->
                                    [update |-> calls[k], failed |-> k \in failed]]
                   /\ runnerSetList' = ApplyPatches(runnerSetList, calls, failing)
                   /\ streak' = IF ~config.DryRun /\ failed = {}
                                THEN Min(streak + 1, 2) ELSE 0
    /\ UNCHANGED <<nodes, pods, config, original, exceeded>>
    /\ UNCHANGED allocVars

\* One tick of the controller.
ReconcileOnce == ReconcileOnceCall /\ UNCHANGED runVars

\* The cluster changes: the record of the last tick no longer describes it.
ForgetTick ==
  /\ listed' = <<>> /\ capacity' = NoCapacity /\ patched' = <<>> /\ reported' = <<>>
  /\ tickResult' = "none" /\ streak' = 0 /\ failedCalls' = {}
  /\ UNCHANGED <<config, original>>
  /\ UNCHANGED allocVars
  /\ UNCHANGED runVars

NodeReadyChanges ==
  \E i \in 1..Len(nodes) :
    /\ nodes' = [nodes EXCEPT ![i].Ready = IF @ = "True" THEN "False" ELSE "True"]
    /\ UNCHANGED <<runnerSetList, pods>>
    /\ UNCHANGED exceeded
    /\ ForgetTick

WorkloadPodChanges ==
  /\ pods' = [pods EXCEPT ![1].Phase = IF @ = "Running" THEN "Succeeded" ELSE "Running"]
  /\ UNCHANGED <<runnerSetList, nodes>>
  /\ UNCHANGED exceeded
  /\ ForgetTick

\* The runner controller starts a runner of a set, within its maxRunners.
RunnerStarts ==
  \E i \in 1..Len(runnerSetList) :
    /\ runnerSetList[i].CurrentRunners < MaxRunning
    /\ runnerSetList[i].MaxRunners # Nil
    /\ runnerSetList[i].CurrentRunners < runnerSetList[i].MaxRunners[1]
    /\ runnerSetList' = [runnerSetList EXCEPT ![i].CurrentRunners = @ + 1]
    /\ UNCHANGED <<nodes, pods>>
    /\ exceeded' = [exceeded EXCEPT ![i] = @ \/ Exceeds(runnerSetList[i].CurrentRunners + 1, original[i])]
    /\ ForgetTick

RunnerStops ==
  \E i \in 1..Len(runnerSetList) :
    /\ runnerSetList[i].CurrentRunners > 0
    /\ runnerSetList' = [runnerSetList EXCEPT ![i].CurrentRunners = @ - 1]
    /\ UNCHANGED <<nodes, pods>>
    /\ UNCHANGED exceeded
    /\ ForgetTick

Next ==
  \/ ReconcileOnce
  \/ NodeReadyChanges
  \/ WorkloadPodChanges
  \/ RunnerStarts
  \/ RunnerStops

Spec == Init /\ [][Next]_vars

(***************************************************************************)
(* A tick in two steps, the listing and the patching, with the runner      *)
(* controller starting runners in between.                                 *)
(***************************************************************************)

\* Steps 1 to 4 of ReconcileOnce: capacity and runner sets are read; the tick
\* goes on with what it has read.  A failed read ends the tick with an error.
TickLists ==
  /\ tickResult # "listing"
  /\ \E fault \in {"none", "nodes", "pods"},
        failedLists \in SUBSET ListCalls(config.Namespaces) :
       /\ fault # "none" => failedLists = {}
       /\ failedCalls' = IF fault # "none" THEN {fault} ELSE failedLists
       /\ \E ls \in {listRunnerSets(runnerSetList, config.Namespaces, failedLists)} :
            IF fault # "none" \/ ls.err
            THEN /\ tickResult' = "error"
                 /\ listed' = <<>> /\ capacity' = NoCapacity
            ELSE /\ tickResult' = "listing"
                 /\ listed' = ls.items
                 /\ capacity' = Calculate(nodes, pods, config.CPUBufferPercent,
                                          config.MemoryBufferPercent)
  /\ patched' = <<>> /\ reported' = <<>> /\ streak' = 0
  /\ UNCHANGED <<runnerSetList, nodes, pods, config, original, exceeded>>
  /\ UNCHANGED allocVars
  /\ UNCHANGED runVars

\* The runner controller starts a runner of a set, within the maxRunners the set
\* holds, while the tick is between its listing and its patches.
RunnerStartsDuringTick ==
  /\ tickResult = "listing"
  /\ \E i \in 1..Len(runnerSetList) :
       /\ runnerSetList[i].CurrentRunners < MaxRunning
       /\ runnerSetList[i].MaxRunners # Nil
       /\ runnerSetList[i].CurrentRunners < runnerSetList[i].MaxRunners[1]
       /\ runnerSetList' = [runnerSetList EXCEPT ![i].CurrentRunners = @ + 1]
       /\ exceeded' = [exceeded EXCEPT
                         ![i] = @ \/ Exceeds(runnerSetList[i].CurrentRunners + 1, original[i])]
  /\ UNCHANGED <<nodes, pods, config, original, listed, capacity, patched, reported,
                 tickResult, streak, failedCalls>>
  /\ UNCHANGED allocVars
  /\ UNCHANGED runVars

\* Step 5 of ReconcileOnce: the updates decided from the listing are patched
\* onto the runner sets as they are stored now.
TickPatches ==
  /\ tickResult = "listing"
  /\ \E updates \in {TickUpdates(listed, capacity)} :
     \E failing \in FailChoices :
       LET calls == PatchCalls(config.DryRun, updates)
           failed == {k \in 1..Len(calls) :
                        ObjectIndex(runnerSetList, calls[k].Namespace,
                                    calls[k].Name) \in failing}
       IN /\ tickResult' = "ok"
          /\ reported' = DryRunReports(config.DryRun, updates)
          /\ patched' = [k \in 1..Len(calls) |->
                           [update |-> calls[k], failed |-> k \in failed]]
          /\ runnerSetList' = ApplyPatches(runnerSetList, calls, failing)
  /\ UNCHANGED <<nodes, pods, config, original, exceeded, listed, capacity, streak,
                 failedCalls>>
  /\ UNCHANGED allocVars
  /\ UNCHANGED runVars

TwoStepNext ==
  \/ TickLists
  \/ RunnerStartsDuringTick
  \/ TickPatches

SpecTwoStep == Init /\ [][TwoStepNext]_vars

(***************************************************************************)
(* Single ticks of a reconciler constructed with or without configured     *)
(* namespaces, over runner sets some of which fail extraction.             *)
(***************************************************************************)

\* ci/alpha enabled, with an annotation that cannot be parsed or without any
\* source for a resource
InvalidAlphaChoices ==
  {[Namespace |-> "ci", Name |-> "alpha", Annotations |-> a, Containers |-> <<>>] :
     a \in {AnnotationsOf("true", "high", "1", "1", Absent),
            AnnotationsOf("true", "2", "abc", "1", Absent),
            AnnotationsOf("true", "2", Absent, "1", Absent),
            AnnotationsOf("true", "2", "1", Absent, Absent)}}

\* ci/zebra enabled, with a min-runners annotation that is not a number
InvalidMinZebra ==
  [Namespace |-> "ci", Name |-> "zebra",
   Annotations |-> AnnotationsOf("true", "1", "1m", "1", "many"),
   Containers |-> <<>>]

TickLayouts ==
  Layouts \cup
  {<<a, z>> : a \in InvalidAlphaChoices, z \in ZebraChoices \cup DevAlphaChoices} \cup
  {<<a, InvalidMinZebra>> : a \in AlphaChoices}

\* NewReconciler with a configuration that names no namespace or ci and dev
TickInit ==
  /\ ClusterInitFor(TickLayouts, {<<>>, <<"ci", "dev">>})
  /\ RunIdle

SpecTick == TickInit /\ [][ReconcileOnce]_vars

(***************************************************************************)
(* The loop of Run and the process around it.                              *)
(***************************************************************************)

\* run() hands Run the context of signal.NotifyContext and a new reconciler.
RunInit ==
  /\ ClusterInit
  /\ pc = "start" /\ ctxErr = "nil" /\ tickerRunning = FALSE /\ tickerC = FALSE
  /\ runErr = "none" /\ exitCode = 0 - 1 /\ inProgress = 0

ClusterUnchanged ==
  /\ UNCHANGED reconcilerVars
  /\ UNCHANGED allocVars

\* SIGINT or SIGTERM arrives: the context is cancelled.
Cancel ==
  /\ pc # "exited"
  /\ ctxErr = "nil"
  /\ ctxErr' = "context.Canceled"
  /\ UNCHANGED <<pc, tickerRunning, tickerC, runErr, exitCode, inProgress>>
  /\ ClusterUnchanged

\* Run calls ReconcileOnce at once.
InitialTickStarts ==
  /\ pc = "start"
  /\ pc' = "initialTick"
  /\ inProgress' = inProgress + 1
  /\ UNCHANGED <<ctxErr, tickerRunning, tickerC, runErr, exitCode>>
  /\ ClusterUnchanged

\* The initial ReconcileOnce returns (its error is logged); the ticker is created.
InitialTickReturns ==
  /\ pc = "initialTick"
  /\ ReconcileOnceCall
  /\ pc' = "select"
  /\ inProgress' = inProgress - 1
  /\ tickerRunning' = TRUE
  /\ UNCHANGED <<ctxErr, tickerC, runErr, exitCode>>

\* The interval elapses: the ticker puts a fire in its channel, unless one waits there.
TickerFires ==
  /\ tickerRunning
  /\ ~tickerC
  /\ tickerC' = TRUE
  /\ UNCHANGED <<pc, ctxErr, tickerRunning, runErr, exitCode, inProgress>>
  /\ ClusterUnchanged

\* select takes the case <-ctx.Done(): Run returns ctx.Err(), the deferred Stop runs.
SelectDone ==
  /\ pc = "select"
  /\ ctxErr # "nil"
  /\ pc' = "returned"
  /\ runErr' = ctxErr
  /\ tickerRunning' = FALSE
  /\ UNCHANGED <<ctxErr, tickerC, exitCode, inProgress>>
  /\ ClusterUnchanged

\* A loop that hands every fire of the ticker its own call of ReconcileOnce,
\* whether the previous call has returned or not.
SelectTickerConcurrently ==
  /\ pc \in {"select", "periodicTick"}
  /\ tickerC
  /\ tickerC' = FALSE
  /\ pc' = "periodicTick"
  /\ inProgress' = inProgress + 1
  /\ UNCHANGED <<ctxErr, tickerRunning, runErr, exitCode>>
  /\ UNCHANGED reconcilerVars
  /\ UNCHANGED allocVars

\* select takes the case <-ticker.C: Run calls ReconcileOnce.  When both cases
\* are ready, select takes either.
SelectTicker ==
  /\ pc = "select"
  /\ tickerC
  /\ tickerC' = FALSE
  /\ pc' = "periodicTick"
  /\ inProgress' = inProgress + 1
  /\ UNCHANGED <<ctxErr, tickerRunning, runErr, exitCode>>
  /\ ClusterUnchanged

\* A periodic ReconcileOnce whose error ends the loop.
PeriodicTickReturnsItsError ==
  /\ pc = "periodicTick"
  /\ ReconcileOnceCall
  /\ pc' = IF tickResult' = "error" THEN "returned" ELSE "select"
  /\ runErr' = IF tickResult' = "error" THEN "reconciliation failed" ELSE runErr
  /\ inProgress' = inProgress - 1
  /\ UNCHANGED <<ctxErr, tickerRunning, tickerC, exitCode>>

\* A periodic ReconcileOnce returns (its error is logged).
PeriodicTickReturns ==
  /\ pc = "periodicTick"
  /\ ReconcileOnceCall
  /\ pc' = "select"
  /\ inProgress' = inProgress - 1
  /\ UNCHANGED <<ctxErr, tickerRunning, tickerC, runErr, exitCode>>

\* run() failing on every error of Run.
RunErrorOnAnyError(err) ==
  IF err # "nil" THEN "reconciliation loop failed" ELSE "nil"

\* the error run() returns for what Run returned
RunError(err) ==
  IF err # "nil" /\ err # "context.Canceled" THEN "reconciliation loop failed" ELSE "nil"

\* run() returns and main exits: with code 1 on an error, with code 0 otherwise.
ProcessExits ==
  /\ pc = "returned"
  /\ pc' = "exited"
  /\ exitCode' = IF RunError(runErr) # "nil" THEN 1 ELSE 0
  /\ UNCHANGED <<ctxErr, tickerRunning, tickerC, runErr, inProgress>>
  /\ ClusterUnchanged

RunNext ==
  \/ Cancel
  \/ InitialTickStarts
  \/ InitialTickReturns
  \/ TickerFires
  \/ SelectDone
  \/ SelectTicker
  \/ PeriodicTickReturns
  \/ ProcessExits

SpecRun == RunInit /\ [][RunNext]_vars

\* Scheduling: the goroutine of Run keeps running, every call of ReconcileOnce
\* returns, the ticker keeps firing, select takes a ready case, and each ready
\* case is taken sooner or later (select chooses among the ready cases at
\* random); run() returns once Run has.
RunFairness ==
  /\ WF_vars(InitialTickStarts)
  /\ WF_vars(InitialTickReturns)
  /\ WF_vars(PeriodicTickReturns)
  /\ WF_vars(TickerFires)
  /\ SF_vars(SelectDone)
  /\ SF_vars(SelectTicker)
  /\ WF_vars(ProcessExits)

SpecRunFair == RunInit /\ [][RunNext]_vars /\ RunFairness

(***************************************************************************)
(* The capacity calculator on its own: a cluster and buffers drawn from    *)
(* bounded sets, one action for the call of Calculate.                     *)
(***************************************************************************)
\* buffer percentages handed to NewCapacityCalculator
BufferVals == {0, 10, 100}

\* the node and the pods of the calculator's basic test, with memory counted in
\* Mi so that the numbers stay within 32 bits: a node of (10000m, 20Gi), a
\* workload pod of (2000m, 4Gi) and a runner pod of (1000m, 2Gi)
TestNodes ==
  <<[Name |-> "node1", cpu |-> 10000, memory |-> 20480000, Ready |-> "True"]>>
TestPods ==
  <<[Name |-> "workload", Phase |-> "Running", scaleSetName |-> "", component |-> "",
     cpu |-> 2000, memory |-> 4096000],
    [Name |-> "pod-2", Phase |-> "Running", scaleSetName |-> "alpha", component |-> "",
     cpu |-> 1000, memory |-> 2048000]>>

\* the status of a node's Ready condition; Absent when it has none
ReadyVals == {"True", "False", "Unknown", Absent}

\* one or two nodes; the first may be not ready
NodeLists ==
  LET node1(r) == [Name |-> "node1", cpu |-> 5, memory |-> 5000, Ready |-> r]
      node2 == [Name |-> "node2", cpu |-> 2, memory |-> 2000, Ready |-> "True"]
  IN {<<node1(r)>> : r \in ReadyVals} \cup {<<node1(r), node2>> : r \in ReadyVals}
       \cup {TestNodes}

\* requests (CPU, memory) of a pod
PodSizes == {<<3, 3000>>, <<8, 8500>>}

\* a pod without runner labels, in any phase
WorkloadPods ==
  {[Name |-> "workload", Phase |-> ph, scaleSetName |-> "", component |-> "",
    cpu |-> sz[1], memory |-> sz[2]] :
     ph \in {"Running", "Pending", "Succeeded", "Failed"}, sz \in PodSizes}

\* a second pod with or without the labels of a runner pod
LabelledPods ==
  {[Name |-> "pod-2", Phase |-> ph, scaleSetName |-> ssn, component |-> comp,
    cpu |-> sz[1], memory |-> sz[2]] :
     ph \in {"Running", "Succeeded"}, ssn \in {"", "alpha"},
     comp \in {"", "runner"}, sz \in PodSizes}

PodLists ==
  {<<w>> : w \in WorkloadPods} \cup {<<w, l>> : w \in WorkloadPods, l \in LabelledPods}
    \cup {TestPods}

CapacityInit ==
  /\ runnerSetList = <<>>
  /\ nodes \in NodeLists
  /\ pods \in PodLists
  /\ config \in {[DryRun |-> FALSE, CPUBufferPercent |-> c, MemoryBufferPercent |-> m,
                    Namespaces |-> <<>>] : c \in BufferVals, m \in BufferVals}
  /\ failedCalls = {}
  /\ listed = <<>> /\ capacity = NoCapacity /\ patched = <<>> /\ reported = <<>>
  /\ tickResult = "none" /\ original = <<>> /\ exceeded = <<>> /\ streak = 0
  /\ inSets = <<>> /\ inCPU = 0 /\ inMemory = 0
  /\ out = [kind |-> "none", panic |-> FALSE, allocs |-> <<>>]
  /\ RunIdle

\* CapacityCalculator.Calculate with both List calls succeeding
RunCalculate ==
  /\ capacity' = Calculate(nodes, pods, config.CPUBufferPercent, config.MemoryBufferPercent)
  /\ out' = [kind |-> "capacity", panic |-> FALSE, allocs |-> <<>>]
  /\ UNCHANGED <<inSets, inCPU, inMemory>>
  /\ UNCHANGED <<runnerSetList, nodes, pods, config, listed, patched, reported,
                 tickResult, original, exceeded, streak, failedCalls>>
  /\ UNCHANGED runVars

SpecCapacity == CapacityInit /\ [][RunCalculate]_vars

(***************************************************************************)
(* The extractor and the quantity parser on their own: one runner set      *)
(* drawn from bounded sets, one action per function.                       *)
(***************************************************************************)
\* values of the cpu and of the memory annotation
CPUAnnotations == {Absent, "2", "4", "2000", "2000m", "1k", "abc", ""}
MemoryAnnotations == {Absent, "2", "512Mi", "1Gi", "1500m", "2x", "Gi"}

\* pod templates: no container; a runner container with both requests behind an
\* init container; a runner container with a CPU request only; no runner container
TemplateChoices ==
  {<<>>,
   <<[Name |-> "init", cpu |-> Some(1), memory |-> Some(5000)],
     [Name |-> "runner", cpu |-> Some(3), memory |-> Some(7000)]>>,
   <<[Name |-> "runner", cpu |-> Some(3), memory |-> Nil]>>,
   <<[Name |-> "worker", cpu |-> Some(3), memory |-> Some(7000)]>>}

ExtractInputs ==
  {[Namespace |-> "ci", Name |-> "alpha",
    Annotations |-> AnnotationsOf(e, p, c, m, Absent), Containers |-> t] :
     e \in {"true", "false", Absent}, p \in {Absent, "2", "high"},
     c \in CPUAnnotations, m \in MemoryAnnotations, t \in TemplateChoices}

ExtractInit ==
  /\ \E rs \in ExtractInputs, m \in InitialMax :
       runnerSetList = <<WithState(rs, m, 0)>>
  /\ nodes = <<>> /\ pods = <<>>
  /\ config = [DryRun |-> FALSE, CPUBufferPercent |-> DefaultCPUBufferPercent,
               MemoryBufferPercent |-> DefaultMemoryBufferPercent, Namespaces |-> <<>>]
  /\ failedCalls = {}
  /\ listed = <<>> /\ capacity = NoCapacity /\ patched = <<>> /\ reported = <<>>
  /\ tickResult = "none" /\ original = <<>> /\ exceeded = <<>> /\ streak = 0
  /\ inSets = <<>> /\ inCPU = 0 /\ inMemory = 0
  /\ out = [kind |-> "none", panic |-> FALSE, allocs |-> <<>>]
  /\ RunIdle

\* the harness leaves everything but out as it is
ExtractUnchanged ==
  /\ UNCHANGED <<inSets, inCPU, inMemory>>
  /\ UNCHANGED reconcilerVars
  /\ UNCHANGED runVars

RunExtract ==
  /\ \E x \in {ExtractRunnerSetResources(runnerSetList[1])} :
       out' = [kind |-> "extract", panic |-> FALSE, allocs |-> <<>>,
               err |-> x.err, res |-> x.res]
  /\ ExtractUnchanged

\* parseResourceQuantityOrInt(value, true) on the cpu annotation
RunParseCPU ==
  /\ runnerSetList[1].Annotations.cpu # Absent
  /\ \E x \in {parseResourceQuantityOrInt(runnerSetList[1].Annotations.cpu, TRUE)} :
       out' = [kind |-> "parseCPU", panic |-> FALSE, allocs |-> <<>>,
               ok |-> x.ok, val |-> x.val]
  /\ ExtractUnchanged

\* parseResourceQuantityOrInt(value, false) on the memory annotation
RunParseMemory ==
  /\ runnerSetList[1].Annotations.memory # Absent
  /\ \E x \in {parseResourceQuantityOrInt(runnerSetList[1].Annotations.memory, FALSE)} :
       out' = [kind |-> "parseMemory", panic |-> FALSE, allocs |-> <<>>,
               ok |-> x.ok, val |-> x.val]
  /\ ExtractUnchanged

ExtractNext == RunExtract \/ RunParseCPU \/ RunParseMemory

SpecExtract == ExtractInit /\ [][ExtractNext]_vars

(***************************************************************************)
(* Properties                                                              *)
(***************************************************************************)

\* the allocation a result holds for a runner set name (names are distinct)
AllocationOf(allocs, name) ==
  LET k == CHOOSE k \in 1..Len(allocs) : allocs[k].Name = name
  IN allocs[k].MaxRunners

RECURSIVE SumOver(_, _, _)
SumOver(f(_), from, to) == IF from > to THEN 0 ELSE f(from) + SumOver(f, from + 1, to)

\* the updates of the last tick: the patch calls of a live tick, the reports of
\* a dry-run tick
UpdatesOfTick ==
  {patched[k].update : k \in 1..Len(patched)} \cup {reported[k] : k \in 1..Len(reported)}

ZeroCapacity == capacity.AvailableCPUMillis = 0 /\ capacity.AvailableMemoryBytes = 0

\* C1: safety floor.  Every value a tick patches (live) or reports (dry-run) is
\* the larger of the allocation and the currentRunners of the runner set acted
\* on, as listed in that tick; with no capacity available it is exactly the
\* running count.  A record that was patched holds at least its running count.
C1_SafetyFloor ==
  /\ \A u \in UpdatesOfTick :
       /\ u.NewMax = Max(u.Allocated, listed[u.Index].CurrentRunners)
       /\ u.NewMax >= listed[u.Index].CurrentRunners
       /\ ZeroCapacity => u.NewMax = listed[u.Index].CurrentRunners
  /\ \A k \in 1..Len(patched) :
       ~patched[k].failed =>
         runnerSetList[patched[k].update.Index].MaxRunners[1] >=
           runnerSetList[patched[k].update.Index].CurrentRunners

\* C1 witness: with no capacity, a runner set with MaxRunning runners and an
\* allocation of 0 is patched to MaxRunning.
C1_Witness ==
  /\ ZeroCapacity
  /\ \E k \in 1..Len(patched) :
       /\ ~patched[k].failed
       /\ patched[k].update.Allocated = 0
       /\ patched[k].update.NewMax = MaxRunning
       /\ listed[patched[k].update.Index].CurrentRunners = MaxRunning

\* C2: opt-in.  No tick issues a patch against a runner set whose enabled
\* annotation is absent or is not "true".
C2_OptIn ==
  \A k \in 1..Len(patched) :
    listed[patched[k].update.Index].Annotations.enabled = "true"

\* C3: minimum guarantee of the strict-priority allocation.  Every runner set
\* with MinRunners > 0 is allocated at least MinRunners, also when MinRunners
\* is above its configured maximum.
C3_StrictMinimum ==
  out.kind = "strict" =>
    \A i \in 1..Len(inSets) :
      inSets[i].MinRunners > 0 =>
        AllocationOf(out.allocs, inSets[i].Name) >= inSets[i].MinRunners

\* C4: minimum guarantee of the fair-share allocation.  Every runner set with
\* MinRunners > 0 is allocated at least MinRunners in the result, and the
\* redistribution pass never takes runners away from what the minimum
\* enforcement left.
C4_FairShareMinimum ==
  (out.kind = "fair" /\ ~out.panic) =>
    \A i \in 1..Len(inSets) :
      /\ inSets[i].MinRunners > 0 =>
           AllocationOf(out.allocs, inSets[i].Name) >= inSets[i].MinRunners
      /\ AllocationOf(out.allocs, inSets[i].Name) >=
           AfterMinimums(inSets, inCPU, inMemory)[i].maxRunners

\* C4 witness: a fair-share result in which two runner sets have minimums that
\* together need more CPU than is available, one of them with a minimum above
\* its configured maximum and above what its share fits.
C4_Witness ==
  /\ out.kind = "fair" /\ ~out.panic
  /\ Len(inSets) = 2
  /\ \A i \in 1..2 : inSets[i].MinRunners > 0 /\ inSets[i].CPUMillis > 0
  /\ inSets[1].MinRunners * inSets[1].CPUMillis
       + inSets[2].MinRunners * inSets[2].CPUMillis > inCPU
  /\ inCPU > 0
  /\ \E i \in 1..2 :
       /\ inSets[i].ConfiguredMax > 0
       /\ inSets[i].MinRunners > inSets[i].ConfiguredMax
       /\ FirstPass(inSets[i], inCPU, inMemory, TotalPriorityWeight(inSets)).maxRunners
            < inSets[i].MinRunners
       /\ AllocationOf(out.allocs, inSets[i].Name) = inSets[i].MinRunners

\* C5: configured cap.  Under both algorithms a runner set with ConfiguredMax > 0
\* and no minimum is allocated at most ConfiguredMax; a runner set that is alone,
\* with ConfiguredMax = 0 and no minimum, gets all that fits in the capacity.
C5_ConfiguredCap ==
  (out.kind \in {"strict", "fair"} /\ ~out.panic) =>
    \A i \in 1..Len(inSets) :
      /\ (inSets[i].ConfiguredMax > 0 /\ inSets[i].MinRunners = 0) =>
           AllocationOf(out.allocs, inSets[i].Name) <= inSets[i].ConfiguredMax
      /\ (Len(inSets) = 1 /\ inSets[i].ConfiguredMax = 0 /\ inSets[i].MinRunners = 0) =>
           AllocationOf(out.allocs, inSets[i].Name) =
             calculateMaxRunners(inSets[i], inCPU, inMemory)

\* C5 witness: a fair-share result in which a runner set without minimum got
\* nothing in the first pass, and the redistribution pass, with room for more,
\* raised it to exactly its configured maximum.
C5_Witness ==
  /\ out.kind = "fair" /\ ~out.panic
  /\ \E i \in 1..Len(inSets) :
       /\ inSets[i].ConfiguredMax > 0 /\ inSets[i].MinRunners = 0
       /\ AfterMinimums(inSets, inCPU, inMemory)[i].maxRunners = 0
       /\ calculateMaxRunners(inSets[i], inCPU, inMemory) > inSets[i].ConfiguredMax
       /\ AllocationOf(out.allocs, inSets[i].Name) = inSets[i].ConfiguredMax

\* the runner sets of the cluster have distinct names
UniqueNames == runnerSetList[1].Name # runnerSetList[2].Name

\* C6: hard cap across ticks.  A runner set with no min-runners annotation that
\* started with maxRunners = m > 0, and whose running count was never above m,
\* never holds a maxRunners above m (stated for clusters whose runner sets have
\* distinct names).
C6_HardCapAcrossTicks ==
  \A i \in 1..Len(runnerSetList) :
    (/\ UniqueNames
     /\ original[i] # Nil
     /\ original[i][1] > 0
     /\ ~exceeded[i]
     /\ runnerSetList[i].Annotations.minRunners = Absent)
    => runnerSetList[i].MaxRunners[1] <= original[i][1]

\* C7: idempotence.  A live tick that follows a live tick whose patches all
\* succeeded, with nothing else changed in between, issues no patch (stated for
\* clusters whose runner sets have distinct names).
C7_SecondTickIdempotent ==
  (streak = 2 /\ UniqueNames) => patched = <<>>

\* C8: dry-run.  In dry-run mode no tick calls patch and every runner set keeps
\* the maxRunners it started with; the changes a tick reports carry the safety
\* floor and obey the no-op rule, and every allocation that would change
\* maxRunners is reported.
C8_DryRun ==
  config.DryRun =>
    /\ patched = <<>>
    /\ \A i \in 1..Len(runnerSetList) : runnerSetList[i].MaxRunners = original[i]
    /\ \A k \in 1..Len(reported) :
         LET u == reported[k]
             listedMax == IF listed[u.Index].MaxRunners # Nil
                          THEN listed[u.Index].MaxRunners[1] ELSE 0
         IN /\ u.NewMax = Max(u.Allocated, listed[u.Index].CurrentRunners)
            /\ u.OldMax = listedMax
            /\ u.NewMax # u.OldMax
    /\ tickResult = "ok" =>
         LET allocations == ReconcilerAllocations(EnabledRunnerSets(listed), capacity)
         IN \A a \in 1..Len(allocations) :
              LET idx == FindRunnerSet(listed, 1, allocations[a].Name)
                  final == Max(allocations[a].MaxRunners, listed[idx].CurrentRunners)
                  listedMax == IF listed[idx].MaxRunners # Nil
                               THEN listed[idx].MaxRunners[1] ELSE 0
              IN final # listedMax =>
                   \E k \in 1..Len(reported) :
                     reported[k].Index = idx /\ reported[k].NewMax = final

\* C8 witness: a dry-run tick reported a change whose value is the running
\* count, above the allocation, for a runner set that stays as it was.
C8_Witness ==
  /\ config.DryRun
  /\ tickResult = "ok"
  /\ \E k \in 1..Len(reported) :
       /\ reported[k].Allocated < reported[k].NewMax
       /\ runnerSetList[reported[k].Index].MaxRunners # Some(reported[k].NewMax)

\* C9: the running controller distributes by fair share.  In a live tick over
\* runner sets with distinct names, the allocation behind every patch is the one
\* AllocateFairShare computes for the enabled runner sets and the capacity of
\* that tick.
C9_TickUsesFairShare ==
  (tickResult = "ok" /\ UniqueNames) =>
    LET fair == AllocateFairShare(EnabledRunnerSets(listed),
                                  capacity.AvailableCPUMillis,
                                  capacity.AvailableMemoryBytes)
    IN \A k \in 1..Len(patched) :
         patched[k].update.Allocated = AllocationOf(fair.allocs, patched[k].update.Name)

\* C10: capacity feasibility of the strict-priority allocation.  With
\* non-negative capacity and no minimums, the allocations together need no more
\* CPU and no more memory than is available.
C10_StrictFeasible ==
  (/\ out.kind = "strict"
   /\ inCPU >= 0 /\ inMemory >= 0
   /\ \A i \in 1..Len(inSets) : inSets[i].MinRunners = 0)
  => LET cpuOf(i) == AllocationOf(out.allocs, inSets[i].Name) * inSets[i].CPUMillis
         memoryOf(i) == AllocationOf(out.allocs, inSets[i].Name) * inSets[i].MemoryBytes
     IN /\ SumOver(cpuOf, 1, Len(inSets)) <= inCPU
        /\ SumOver(memoryOf, 1, Len(inSets)) <= inMemory

\* C10 witness: a strict-priority result without minimums in which both runner
\* sets got runners and all the available CPU is used.
C10_Witness ==
  /\ out.kind = "strict"
  /\ Len(inSets) = 2
  /\ \A i \in 1..2 : inSets[i].MinRunners = 0 /\ AllocationOf(out.allocs, inSets[i].Name) > 0
  /\ inCPU > 0
  /\ AllocationOf(out.allocs, inSets[1].Name) * inSets[1].CPUMillis
       + AllocationOf(out.allocs, inSets[2].Name) * inSets[2].CPUMillis = inCPU

\* the runner sets passed in the opposite order
ReversedSets == [i \in 1..Len(inSets) |-> inSets[Len(inSets) + 1 - i]]

\* C11: determinism.  Allocate and AllocateFairShare each give every runner set
\* the same number of slots when the same runner sets are passed in the opposite
\* order; under strict priority, of two runner sets of equal priority the one
\* whose name comes first is served first, out of the whole capacity.
C11_OrderIndependent ==
  /\ out.kind = "strict" =>
       \A other \in {Allocate(ReversedSets, inCPU, inMemory)} :
          /\ \A i \in 1..Len(inSets) :
               AllocationOf(out.allocs, inSets[i].Name) = AllocationOf(other, inSets[i].Name)
          /\ \A i, j \in 1..Len(inSets) :
               (inSets[i].Priority = inSets[j].Priority
                /\ NameLess(inSets[i].Name, inSets[j].Name)) =>
                 AllocationOf(out.allocs, inSets[i].Name) =
                   StrictSlots(inSets[i], inCPU, inMemory)
  /\ out.kind = "fair" =>
       \A other \in {AllocateFairShare(ReversedSets, inCPU, inMemory)} :
          /\ other.panic = out.panic
          /\ ~out.panic =>
               \A i \in 1..Len(inSets) :
                 AllocationOf(out.allocs, inSets[i].Name) =
                   AllocationOf(other.allocs, inSets[i].Name)

\* C11 witness: zebra is passed before alpha, both of the same priority and cost
\* (1, 1), uncapped, with capacity (3, 3); strict priority gives alpha 3, zebra 0.
C11_Witness ==
  /\ out.kind = "strict"
  /\ Len(inSets) = 2
  /\ inSets[1].Name = "zebra" /\ inSets[2].Name = "alpha"
  /\ inSets[1].Priority = inSets[2].Priority
  /\ \A i \in 1..2 : /\ inSets[i].CPUMillis = 1 /\ inSets[i].MemoryBytes = 1
                     /\ inSets[i].MinRunners = 0 /\ inSets[i].ConfiguredMax = 0
  /\ inCPU = 3 /\ inMemory = 3
  /\ AllocationOf(out.allocs, "alpha") = 3
  /\ AllocationOf(out.allocs, "zebra") = 0

\* C12: non-negativity.  Every allocation Allocate or AllocateFairShare returns
\* is >= 0, whatever the capacity, the per-runner costs and the priorities.
C12_NonNegative ==
  (out.kind \in {"strict", "fair"} /\ ~out.panic) =>
    \A k \in 1..Len(out.allocs) : out.allocs[k].MaxRunners >= 0

\* C12 witness: a fair-share result for negative CPU capacity, with a runner set
\* of negative priority and positive cost and one of non-positive cost.
C12_Witness ==
  /\ out.kind = "fair" /\ ~out.panic
  /\ inCPU < 0
  /\ Len(inSets) = 2
  /\ \E i, j \in 1..2 :
       /\ inSets[i].Priority < 0 /\ inSets[i].CPUMillis > 0 /\ inSets[i].MemoryBytes > 0
       /\ (inSets[j].CPUMillis <= 0 \/ inSets[j].MemoryBytes <= 0)
  /\ \A k \in 1..2 : out.allocs[k].MaxRunners >= 0

\* C13: cancellation is not followed by a new tick.  Once the context is
\* cancelled, Run at its select statement does not call ReconcileOnce again,
\* also when a fire of the ticker waits in the channel.
C13_NoTickAfterCancel ==
  [][(ctxErr # "nil" /\ pc = "select") => pc' # "periodicTick"]_vars

\* C14: graceful shutdown.  Once the context is cancelled, Run returns the
\* context's cancellation error and the process exits with code 0.
C14_GracefulShutdown ==
  (ctxErr # "nil") ~> (pc = "exited" /\ runErr = "context.Canceled" /\ exitCode = 0)

\* C14 witness: the process has exited with code 0 after Run returned the
\* cancellation error, the cancellation having come while ticks were running.
C14_Witness ==
  /\ pc = "exited"
  /\ runErr = "context.Canceled"
  /\ exitCode = 0
  /\ tickResult # "none"

\* C15: the loop survives tick failures.  From its start Run goes straight to
\* the initial tick; every later tick takes one fire of the ticker; Run has
\* returned only if the context is cancelled; and after a tick that failed,
\* unless the context is cancelled, a later tick is started.
C15_LoopSurvivesFailures ==
  /\ [](pc \in {"returned", "exited"} => ctxErr # "nil")
  /\ [][(pc = "start" /\ pc' # pc) => pc' = "initialTick"]_vars
  /\ [][(pc' = "periodicTick" /\ pc # "periodicTick")
          => (pc = "select" /\ tickerC /\ ~tickerC')]_vars
  /\ [][(pc \in {"initialTick", "periodicTick"} /\ pc' # pc) => pc' = "select"]_vars
  /\ ((pc = "select" /\ tickResult = "error" /\ ctxErr = "nil")
        ~> (pc = "periodicTick" \/ ctxErr # "nil"))

\* C15 witness: with the context not cancelled, a periodic tick runs after a
\* tick that returned an error.
C15_Witness ==
  /\ pc = "periodicTick"
  /\ tickResult = "error"
  /\ ctxErr = "nil"

\* C16: tick-level failures abort the tick.  A tick in which listing nodes,
\* listing pods or a List call for runner sets failed (cluster-wide or for a
\* configured namespace) issues no patch call and returns an error.
C16_ListFailureAbortsTick ==
  failedCalls # {} => (tickResult = "error" /\ patched = <<>>)

\* the maxRunners of a listed runner set as ReconcileOnce reads it
ListedMax(i) == IF listed[i].MaxRunners # Nil THEN listed[i].MaxRunners[1] ELSE 0

\* The allocation computed from the resources of listed runner set i (the
\* runner sets of a listing differ in their resources): Allocate returns its
\* allocations in sorted order.
OwnAllocation(i) ==
  LET enabledRunnerSets == EnabledRunnerSets(listed)
      sorted == SortByPriority(enabledRunnerSets)
      k == CHOOSE k \in 1..Len(sorted) : sorted[k] = ExtractRunnerSetResources(listed[i]).res
  IN ReconcilerAllocations(enabledRunnerSets, capacity)[k].MaxRunners

\* C17: a patch failure is absorbed within the tick.  When a patch fails,
\* ReconcileOnce returns no error, and every other runner set that has an
\* allocation whose final value differs from its maxRunners has a patch
\* attempted against it in the same tick.
C17_PatchFailureAbsorbed ==
  (\E k \in 1..Len(patched) : patched[k].failed) =>
    /\ tickResult = "ok"
    /\ \A i \in 1..Len(listed) :
         (/\ ExtractRunnerSetResources(listed[i]).err = ""
          /\ ~\E k \in 1..Len(patched) : patched[k].failed /\ patched[k].update.Index = i
          /\ Max(OwnAllocation(i), listed[i].CurrentRunners) # ListedMax(i))
         => \E k \in 1..Len(patched) :
              /\ patched[k].update.Index = i
              /\ patched[k].update.NewMax = Max(OwnAllocation(i), listed[i].CurrentRunners)

\* C18: a per-set extraction failure is absorbed within the tick.  An enabled
\* runner set whose extraction fails gets no patch and consumes no capacity:
\* every other runner set that passes extraction is allocated what Allocate
\* gives it without the failed one, and is patched (reported, in dry-run mode)
\* when its final value differs from its maxRunners.
C18_ExtractionFailureAbsorbed ==
  tickResult = "ok" =>
    \A i \in 1..Len(listed) :
      (listed[i].Annotations.enabled = "true"
       /\ ExtractRunnerSetResources(listed[i]).err # "") =>
        /\ \A u \in UpdatesOfTick : u.Index # i
        /\ \A j \in 1..Len(listed) :
             ExtractRunnerSetResources(listed[j]).err = "" =>
               LET alone == Allocate(<<ExtractRunnerSetResources(listed[j]).res>>,
                                     capacity.AvailableCPUMillis,
                                     capacity.AvailableMemoryBytes)[1].MaxRunners
                   final == Max(alone, listed[j].CurrentRunners)
               IN final # ListedMax(j) =>
                    \E u \in UpdatesOfTick : u.Index = j /\ u.NewMax = final

\* C19 as stated: for buffers in [0,100], also when used exceeds total, the
\* available CPU and memory Calculate returns are at least 0 and at most
\* (total - used) x (1 - buffer%).
C19_AvailableWithinUnclampedRemainder ==
  (out.kind = "capacity"
   /\ config.CPUBufferPercent \in 0..100 /\ config.MemoryBufferPercent \in 0..100) =>
    /\ capacity.AvailableCPUMillis >= 0
    /\ capacity.AvailableMemoryBytes >= 0
    /\ capacity.AvailableCPUMillis * 100 <=
         (capacity.TotalCPUMillis - capacity.UsedCPUMillis) * (100 - config.CPUBufferPercent)
    /\ capacity.AvailableMemoryBytes * 100 <=
         (capacity.TotalMemoryBytes - capacity.UsedMemoryBytes)
           * (100 - config.MemoryBufferPercent)

\* C19 amended: for buffers in [0,100], also when used exceeds total, the
\* available CPU and memory Calculate returns are at least 0 and at most
\* max(total - used, 0) x (1 - buffer%).
C19_AvailableWithinRemainder ==
  (out.kind = "capacity"
   /\ config.CPUBufferPercent \in 0..100 /\ config.MemoryBufferPercent \in 0..100) =>
    /\ capacity.AvailableCPUMillis >= 0
    /\ capacity.AvailableMemoryBytes >= 0
    /\ capacity.AvailableCPUMillis * 100 <=
         Max(capacity.TotalCPUMillis - capacity.UsedCPUMillis, 0)
           * (100 - config.CPUBufferPercent)
    /\ capacity.AvailableMemoryBytes * 100 <=
         Max(capacity.TotalMemoryBytes - capacity.UsedMemoryBytes, 0)
           * (100 - config.MemoryBufferPercent)

\* Calculate has run on an over-committed cluster with ready nodes and a buffer
\* below 100, and returned 0 available CPU and memory.
C19_Witness ==
  /\ out.kind = "capacity"
  /\ capacity.TotalCPUMillis > 0 /\ capacity.TotalMemoryBytes > 0
  /\ capacity.UsedCPUMillis > capacity.TotalCPUMillis
  /\ capacity.UsedMemoryBytes > capacity.TotalMemoryBytes
  /\ config.CPUBufferPercent < 100 /\ config.MemoryBufferPercent < 100
  /\ capacity.AvailableCPUMillis = 0 /\ capacity.AvailableMemoryBytes = 0

\* a pod in phase Succeeded or Failed
TerminalPod(pod) == pod.Phase \in {"Succeeded", "Failed"}

\* a pod whose scale-set-name label is non-empty or whose component label is runner
LabelledRunner(pod) == pod.scaleSetName # "" \/ pod.component = "runner"

\* the pods that are neither terminal nor runner pods, in order
CountedPods(podList) ==
  SelectSeq(podList, LAMBDA pod : ~TerminalPod(pod) /\ ~LabelledRunner(pod))

\* C20: used sums the requests of exactly the pods that are neither terminal nor
\* runner pods, so every pod list that differs from the one Calculate read only
\* in runner or terminal pods (added, removed or resized) yields the same
\* available CPU and memory.
C20_RunnerAndTerminalPodsIgnored ==
  out.kind = "capacity" =>
    LET counted == CountedPods(pods)
        cpuOf(i) == MilliValue(counted[i].cpu)
        memoryOf(i) == Value(counted[i].memory)
    IN /\ capacity.UsedCPUMillis = SumOver(cpuOf, 1, Len(counted))
       /\ capacity.UsedMemoryBytes = SumOver(memoryOf, 1, Len(counted))
       /\ \A other \in PodLists :
            CountedPods(other) = counted =>
              LET c == Calculate(nodes, other, config.CPUBufferPercent,
                                 config.MemoryBufferPercent)
              IN /\ c.AvailableCPUMillis = capacity.AvailableCPUMillis
                 /\ c.AvailableMemoryBytes = capacity.AvailableMemoryBytes

\* Calculate has run on a counted pod, with capacity left, next to a running pod
\* that carries only the component label of a runner.
C20_Witness ==
  /\ out.kind = "capacity"
  /\ Len(pods) = 2
  /\ ~TerminalPod(pods[1]) /\ ~LabelledRunner(pods[1])
  /\ pods[2].Phase = "Running" /\ pods[2].scaleSetName = "" /\ pods[2].component = "runner"
  /\ pods[2].cpu > 0
  /\ capacity.UsedCPUMillis = pods[1].cpu
  /\ capacity.AvailableCPUMillis > 0 /\ capacity.AvailableMemoryBytes > 0

\* allocatable CPU and memory over the nodes whose Ready condition is True
RECURSIVE ReadyTotal(_)
ReadyTotal(nodeList) ==
  IF nodeList = <<>> THEN [cpu |-> 0, memory |-> 0]
  ELSE LET rest == ReadyTotal(Tail(nodeList))
       IN IF nodeList[1].Ready = "True"
          THEN [cpu |-> rest.cpu + MilliValue(nodeList[1].cpu),
                memory |-> rest.memory + Value(nodeList[1].memory)]
          ELSE rest

\* C21: Calculate returns available = max(total - used, 0) x (100 - buffer%) / 100
\* with truncating division, total being the allocatable of exactly the nodes
\* whose Ready condition is True; the node of (10000m, 20Gi) with a workload pod
\* of (2000m, 4Gi), a runner pod of (1000m, 2Gi) and 10% buffers gives 7200m and
\* 90% of 16Gi rounded down (14745 when memory is counted in Mi).
C21_AvailableFormula ==
  out.kind = "capacity" =>
    LET total == ReadyTotal(nodes)
        rawCPU == Max(total.cpu - capacity.UsedCPUMillis, 0)
        rawMemory == Max(total.memory - capacity.UsedMemoryBytes, 0)
        cpuProduct == rawCPU * (100 - config.CPUBufferPercent)
        memoryProduct == rawMemory * (100 - config.MemoryBufferPercent)
    IN /\ capacity.TotalCPUMillis = total.cpu
       /\ capacity.TotalMemoryBytes = total.memory
       /\ capacity.AvailableCPUMillis * 100 <= cpuProduct
       /\ cpuProduct < (capacity.AvailableCPUMillis + 1) * 100
       /\ capacity.AvailableMemoryBytes * 100 <= memoryProduct
       /\ memoryProduct < (capacity.AvailableMemoryBytes + 1) * 100
       /\ (nodes = TestNodes /\ pods = TestPods
           /\ config.CPUBufferPercent = 10 /\ config.MemoryBufferPercent = 10) =>
            /\ capacity.AvailableCPUMillis = 7200
            /\ capacity.AvailableMemoryBytes = 14745

\* Calculate has run on two nodes of which the first has an Unknown Ready
\* condition, and the division by 100 left a remainder for CPU and for memory.
C21_Witness ==
  /\ out.kind = "capacity"
  /\ Len(nodes) = 2 /\ nodes[1].Ready = "Unknown" /\ nodes[2].Ready = "True"
  /\ capacity.TotalCPUMillis = MilliValue(nodes[2].cpu)
  /\ capacity.AvailableCPUMillis > 0
  /\ (capacity.TotalCPUMillis - capacity.UsedCPUMillis)
       * (100 - config.CPUBufferPercent) > capacity.AvailableCPUMillis * 100
  /\ (capacity.TotalMemoryBytes - capacity.UsedMemoryBytes)
       * (100 - config.MemoryBufferPercent) > capacity.AvailableMemoryBytes * 100

\* Calculate has run on the cluster of the basic test
C21_TestCluster ==
  /\ out.kind = "capacity" /\ nodes = TestNodes /\ pods = TestPods
  /\ config.CPUBufferPercent = 10 /\ config.MemoryBufferPercent = 10
  /\ capacity.AvailableCPUMillis = 7200 /\ capacity.AvailableMemoryBytes = 14745

\* the weight the fair share is specified to give a runner set
SpecifiedWeight(rs) == Max(rs.Priority, 1)

\* C22: in AllocateFairShare the weight of every set is max(priority, 1), the
\* total weight W is at least the number of sets (so the division by W is
\* defined), and the first pass gives each set the runners that fit in
\* floor(avail x w / W) of the CPU and of the memory (shown for sets without
\* minimum and cap).
C22_FairShareWeights ==
  out.kind = "fair" =>
    LET W == SumOver(LAMBDA i : SpecifiedWeight(inSets[i]), 1, Len(inSets))
    IN /\ ~out.panic
       /\ TotalPriorityWeight(inSets) = W
       /\ W >= Len(inSets)
       /\ \A i \in 1..Len(inSets) :
            LET rs == inSets[i]
                w == SpecifiedWeight(rs)
            IN /\ PriorityWeight(rs) = w
               /\ (rs.MinRunners = 0 /\ rs.ConfiguredMax = 0) =>
                    AfterMinimums(inSets, inCPU, inMemory)[i].maxRunners =
                      calculateMaxRunners(rs, (inCPU * w) \div W, (inMemory * w) \div W)

\* the position of runner set i before j in (priority DESC, name ASC) order
Before(i, j) ==
  \/ inSets[i].Priority > inSets[j].Priority
  \/ inSets[i].Priority = inSets[j].Priority /\ NameLess(inSets[i].Name, inSets[j].Name)

\* the indexes of inSets in (priority DESC, name ASC) order
RECURSIVE OrderOf(_)
OrderOf(S) ==
  IF S = {} THEN <<>>
  ELSE LET first == CHOOSE i \in S : \A j \in S \ {i} : Before(i, j)
       IN <<first>> \o OrderOf(S \ {first})

\* what a set with the given slots takes from the remainder when it is offered
Takes(rs, slots, remainingCPU, remainingMemory) ==
  IF rs.ConfiguredMax > 0 /\ slots >= rs.ConfiguredMax THEN 0
  ELSE IF rs.ConfiguredMax > 0
       THEN Min(calculateMaxRunners(rs, remainingCPU, remainingMemory),
                rs.ConfiguredMax - slots)
       ELSE calculateMaxRunners(rs, remainingCPU, remainingMemory)

\* the slots after the remainder was offered once to the sets of order from
\* position k on
RECURSIVE OfferedOnce(_, _, _, _, _)
OfferedOnce(order, k, slots, remainingCPU, remainingMemory) ==
  IF k > Len(order) THEN slots
  ELSE LET i == order[k]
           take == Takes(inSets[i], slots[i], remainingCPU, remainingMemory)
       IN OfferedOnce(order, k + 1, [slots EXCEPT ![i] = @ + take],
                      remainingCPU - take * inSets[i].CPUMillis,
                      remainingMemory - take * inSets[i].MemoryBytes)

\* C23: the capacity left after the first pass and the minimum enforcement is
\* offered once to the sets in (priority DESC, name ASC) order, each set not at
\* its cap taking min(fit(remaining), configured_max - slots) and reducing the
\* remainder; the test's inputs give high 2, low 8.
C23_Redistribution ==
  (out.kind = "fair" /\ ~out.panic) =>
    /\ \A base \in {AfterMinimums(inSets, inCPU, inMemory)} :
         \A slots \in {[i \in 1..Len(inSets) |-> base[i].maxRunners]} :
           LET cpuOf(i) == slots[i] * inSets[i].CPUMillis
               memoryOf(i) == slots[i] * inSets[i].MemoryBytes
           IN \A final \in {OfferedOnce(OrderOf(1..Len(inSets)), 1, slots,
                                         inCPU - SumOver(cpuOf, 1, Len(inSets)),
                                         inMemory - SumOver(memoryOf, 1, Len(inSets)))} :
                \A i \in 1..Len(inSets) :
                  AllocationOf(out.allocs, inSets[i].Name) = final[i]
    /\ (inSets = TestCapsPreventOverallocation.sets
        /\ inCPU = TestCapsPreventOverallocation.cpu
        /\ inMemory = TestCapsPreventOverallocation.memory) =>
         /\ AllocationOf(out.allocs, "high") = 2
         /\ AllocationOf(out.allocs, "low") = 8

\* AllocateFairShare has run on the test's inputs: high is held at its cap of 2
\* and low has 6 runners more than the 2 of its first pass.
C23_Witness ==
  /\ out.kind = "fair" /\ ~out.panic
  /\ inSets = TestCapsPreventOverallocation.sets
  /\ AfterMinimums(inSets, inCPU, inMemory)[2].maxRunners = 2
  /\ AllocationOf(out.allocs, "high") = 2
  /\ AllocationOf(out.allocs, "low") = 8

AnnotatedMin(rs) ==
  IF rs.Annotations.minRunners \in DOMAIN DecimalStrings
  THEN DecimalStrings[rs.Annotations.minRunners] ELSE 0

\* C26: zero-capacity boundary.  When the available CPU and memory of a tick are
\* both zero, the final value of every enabled runner set (the value the tick
\* writes or reports, its maxRunners when the tick leaves it alone) is
\* max(min_runners, currently_running), whatever its configured maximum (stated
\* for clusters whose runner sets have distinct names).
C26_ZeroCapacityBoundary ==
  (tickResult = "ok" /\ ZeroCapacity /\ UniqueNames) =>
    \A i \in 1..Len(listed) :
      ExtractRunnerSetResources(listed[i]).err = "" =>
        LET expected == Max(AnnotatedMin(listed[i]), listed[i].CurrentRunners)
        IN /\ \A u \in UpdatesOfTick : u.Index = i => u.NewMax = expected
           /\ (~\E u \in UpdatesOfTick : u.Index = i) => ListedMax(i) = expected

\* C29: min-runners annotation.  The extractor reads the optional min-runners
\* annotation: a runner set annotated with min-runners = N has, after a tick, a
\* final value (the value the tick writes or reports, its maxRunners when the
\* tick leaves it alone) of at least N even when capacity is tight, and a runner
\* set with a malformed value is rejected and left alone (stated for clusters
\* whose runner sets have distinct names).
C29_MinRunnersAnnotation ==
  (tickResult = "ok" /\ UniqueNames) =>
    \A i \in 1..Len(listed) :
      LET rs == listed[i]
      IN (rs.Annotations.enabled = "true" /\ rs.Annotations.minRunners # Absent) =>
           IF rs.Annotations.minRunners \in DOMAIN DecimalStrings
           THEN /\ \A u \in UpdatesOfTick : u.Index = i => u.NewMax >= AnnotatedMin(rs)
                /\ (~\E u \in UpdatesOfTick : u.Index = i) => ListedMax(i) >= AnnotatedMin(rs)
           ELSE \A u \in UpdatesOfTick : u.Index # i

\* the cpu and memory annotation of the runner set handed to the extractor
InCPUAnnotation == runnerSetList[1].Annotations.cpu
InMemoryAnnotation == runnerSetList[1].Annotations.memory

\* C27: the CPU annotation values "2" (2 CPUs), "2000m" and "2000" all yield a
\* per-runner CPU requirement of 2000 millicores, and "4" yields 4000.
C27_CPUFormatsEquivalent ==
  (out.kind = "extract" /\ out.err = "") =>
    /\ InCPUAnnotation \in {"2", "2000m", "2000"} => out.res.CPUMillis = 2000
    /\ InCPUAnnotation = "4" => out.res.CPUMillis = 4000

\* what the quantity parser is specified to return for the strings of the model
\* (absent from the table: an error)
ExpectedCPU ==
  ("2" :> 2) @@ ("4" :> 4) @@ ("2000" :> 2000) @@ ("2000m" :> 2000) @@
  ("1k" :> 1000 * 1000)
ExpectedMemory ==
  ("2" :> 2) @@ ("512Mi" :> 512 * 1024 * 1024) @@ ("1Gi" :> 1024 * 1024 * 1024) @@
  ("1500m" :> 2)

RunnerRequest(containers, resource) ==
  IF \E i \in 1..Len(containers) : containers[i].Name = "runner"
  THEN LET i == CHOOSE i \in 1..Len(containers) : containers[i].Name = "runner"
       IN IF resource = "cpu" THEN containers[i].cpu ELSE containers[i].memory
  ELSE Nil

\* C30: extractor precedence.  Not-enabled comes before every other error.  For
\* CPU and for memory on their own: an annotation that is present decides (its
\* parsed value is used and the pod template ignored, an invalid one rejects the
\* set); when it is absent the request of the container named runner is used;
\* when there is none the set is rejected as missing CPU or missing memory.
C30_ExtractorPrecedence ==
  out.kind = "extract" =>
    LET rs == runnerSetList[1]
        ann == rs.Annotations
        cpuRequest == RunnerRequest(rs.Containers, "cpu")
        memoryRequest == RunnerRequest(rs.Containers, "memory")
        cpuOK == IF ann.cpu # Absent THEN ann.cpu \in DOMAIN ExpectedCPU
                 ELSE cpuRequest # Nil
    IN /\ ann.enabled # "true" => out.err = "not enabled"
       /\ (ann.enabled = "true" /\ ann.priority \in {Absent, "2"}) =>
            /\ (ann.cpu # Absent /\ ann.cpu \notin DOMAIN ExpectedCPU) =>
                 out.err = "invalid CPU annotation"
            /\ (ann.cpu = Absent /\ cpuRequest = Nil) => out.err = "CPU not specified"
            /\ (cpuOK /\ ann.memory # Absent /\ ann.memory \notin DOMAIN ExpectedMemory) =>
                 out.err = "invalid memory annotation"
            /\ (cpuOK /\ ann.memory = Absent /\ memoryRequest = Nil) =>
                 out.err = "memory not specified"
            /\ out.err = "" =>
                 /\ out.res.CPUMillis =
                      IF ann.cpu # Absent
                      THEN parseResourceQuantityOrInt(ann.cpu, TRUE).val
                      ELSE MilliValue(cpuRequest[1])
                 /\ out.res.MemoryBytes =
                      IF ann.memory # Absent
                      THEN parseResourceQuantityOrInt(ann.memory, FALSE).val
                      ELSE Value(memoryRequest[1])

\* the extractor has accepted a runner set whose cpu annotation "2000m" stands
\* next to a runner container requesting another amount, and whose memory comes
\* from that container
C30_Witness ==
  /\ out.kind = "extract" /\ out.err = ""
  /\ InCPUAnnotation = "2000m" /\ InMemoryAnnotation = Absent
  /\ RunnerRequest(runnerSetList[1].Containers, "cpu") = Some(3)
  /\ out.res.CPUMillis = 2000
  /\ out.res.MemoryBytes = 7

\* C32: the fit primitive.  calculateMaxRunners returns 0 when the cost of the
\* set is not positive in CPU or in memory; otherwise the largest n >= 0 with
\* n x cost within the availability in both resources (the truncated quotients'
\* minimum, at least 0): 0 for any negative availability, 2 for 8 CPUs and a
\* runner of 3.  Shown on the result of Allocate for a single set without
\* minimum and cap.
C32_FitPrimitive ==
  (out.kind = "strict" /\ Len(inSets) = 1
   /\ inSets[1].MinRunners = 0 /\ inSets[1].ConfiguredMax = 0) =>
    LET rs == inSets[1]
        n == out.allocs[1].MaxRunners
    IN /\ n = calculateMaxRunners(rs, inCPU, inMemory)
       /\ n >= 0
       /\ (rs.CPUMillis <= 0 \/ rs.MemoryBytes <= 0) => n = 0
       /\ (inCPU < 0 \/ inMemory < 0) => n = 0
       /\ (rs.CPUMillis > 0 /\ rs.MemoryBytes > 0 /\ inCPU >= 0 /\ inMemory >= 0) =>
            /\ n * rs.CPUMillis <= inCPU
            /\ n * rs.MemoryBytes <= inMemory
            /\ (n + 1) * rs.CPUMillis > inCPU \/ (n + 1) * rs.MemoryBytes > inMemory
       /\ (inSets = TestEightForThree.sets /\ inCPU = 8000) => n = 2

\* Allocate has given the single 3-CPU runner set 2 runners out of 8 CPUs
C32_Witness ==
  /\ out.kind = "strict"
  /\ inSets = TestEightForThree.sets /\ inCPU = 8000 /\ inMemory = 102400
  /\ out.allocs[1].MaxRunners = 2

\* Allocate has given nothing to the set of the test with negative memory
C32_NegativeMemory ==
  /\ out.kind = "strict"
  /\ inSets = TestNegativeMemory.sets /\ inMemory < 0 /\ inCPU = 10000
  /\ out.allocs[1].MaxRunners = 0

\* the runners of rs that fit in its proportional share of the input's capacity
ShareFit(rs) ==
  LET total == TotalPriorityWeight(inSets)
  IN calculateMaxRunners(rs, TruncDiv(inCPU * PriorityWeight(rs), total),
                         TruncDiv(inMemory * PriorityWeight(rs), total))

NoNegativePriority == \A i \in 1..Len(inSets) : inSets[i].Priority >= 0

\* C33: fair share prevents starvation.  When no set has a negative priority,
\* AllocateFairShare returns for every set at least the runners that fit in its
\* proportional share, or its configured maximum when that is smaller; a set
\* whose share fits one runner gets at least one.
C33_NoStarvation ==
  (out.kind = "fair" /\ NoNegativePriority) =>
    /\ ~out.panic
    /\ Len(out.allocs) = Len(inSets)
    /\ \A i \in 1..Len(inSets) :
         \A fit \in {ShareFit(inSets[i])} :
           /\ out.allocs[i].MaxRunners >=
                IF inSets[i].ConfiguredMax > 0 THEN Min(fit, inSets[i].ConfiguredMax)
                ELSE fit
           /\ fit >= 1 => out.allocs[i].MaxRunners >= 1

\* a set of lower priority than another has received runners that fit its share
C33_Witness ==
  /\ out.kind = "fair" /\ NoNegativePriority /\ Len(inSets) = 2
  /\ inSets[1].Priority < inSets[2].Priority
  /\ inSets[2].ConfiguredMax = 0 /\ inSets[2].CPUMillis > 0 /\ inSets[2].MemoryBytes > 0
  /\ ShareFit(inSets[1]) >= 1
  /\ out.allocs[1].MaxRunners >= 1

\* the test's three sets have received 2 (low), 8 (high) and 4 (medium) runners
C33_TestFairDistribution ==
  /\ out.kind = "fair" /\ inSets = TestFairDistribution.sets /\ inCPU = 14000
  /\ out.allocs = <<[Name |-> "low", MaxRunners |-> 2],
                    [Name |-> "high", MaxRunners |-> 8],
                    [Name |-> "medium", MaxRunners |-> 4]>>

\* the capacity of the input that the returned slots leave over
LeftoverCPU ==
  LET cpuOf(i) == out.allocs[i].MaxRunners * inSets[i].CPUMillis
  IN inCPU - SumOver(cpuOf, 1, Len(inSets))

LeftoverMemory ==
  LET memoryOf(i) == out.allocs[i].MaxRunners * inSets[i].MemoryBytes
  IN inMemory - SumOver(memoryOf, 1, Len(inSets))

BelowCap(i) ==
  inSets[i].ConfiguredMax = 0 \/ out.allocs[i].MaxRunners < inSets[i].ConfiguredMax

\* C36: the single redistribution pass reaches a fixpoint.  When
\* AllocateFairShare has returned, no set that is uncapped or below its
\* configured maximum fits one more runner in the capacity left over
\* (available minus the sum of slots x cost).
C36_RedistributionFixpoint ==
  (out.kind = "fair" /\ ~out.panic) =>
    \A cpu \in {LeftoverCPU} : \A memory \in {LeftoverMemory} :
      \A i \in 1..Len(inSets) :
        BelowCap(i) => calculateMaxRunners(inSets[i], cpu, memory) = 0

\* the second pass has given a set more runners than its first pass; capacity
\* is left over in both resources and a set below its cap, with a positive cost,
\* does not fit in it
C36_Witness ==
  /\ out.kind = "fair" /\ ~out.panic /\ Len(inSets) = 2
  /\ \E i \in 1..2 :
       out.allocs[i].MaxRunners > AfterMinimums(inSets, inCPU, inMemory)[i].maxRunners
  /\ LeftoverCPU > 0 /\ LeftoverMemory > 0
  /\ \E i \in 1..2 :
       BelowCap(i) /\ inSets[i].CPUMillis > 0 /\ inSets[i].MemoryBytes > 0

NoMinimums == \A i \in 1..Len(inSets) : inSets[i].MinRunners = 0

\* C37: fair share without minimums is capacity-feasible.  With non-negative
\* available CPU and memory, no negative priority and no set with a minimum,
\* the sum of slots x cpu is within the available CPU and the sum of
\* slots x memory within the available memory, after the first pass and in the
\* result.
C37_FairShareFeasible ==
  (out.kind = "fair" /\ NoNegativePriority /\ NoMinimums /\ inCPU >= 0 /\ inMemory >= 0) =>
    /\ ~out.panic
    /\ \A first \in {AfterMinimums(inSets, inCPU, inMemory)} :
         /\ SumAllocatedCPU(first) <= inCPU
         /\ SumAllocatedMemory(first) <= inMemory
    /\ LeftoverCPU >= 0
    /\ LeftoverMemory >= 0

\* two sets without minimums have both received runners, one of them in the
\* second pass, and all of the available CPU is used
C37_Witness ==
  /\ out.kind = "fair" /\ NoNegativePriority /\ NoMinimums /\ Len(inSets) = 2
  /\ inCPU > 0 /\ inMemory > 0
  /\ \A i \in 1..2 : out.allocs[i].MaxRunners >= 1
  /\ \E i \in 1..2 :
       out.allocs[i].MaxRunners > AfterMinimums(inSets, inCPU, inMemory)[i].maxRunners
  /\ LeftoverCPU = 0

\* C39: the allocators are total.  On every non-empty list of runner sets with
\* distinct names, whatever the priorities and capacities, Allocate and
\* AllocateFairShare return, without a crash, exactly one allocation for each
\* input set, under that set's name.
C39_AllocatorsTotal ==
  (out.kind \in {"strict", "fair"} /\ Len(inSets) > 0) =>
    /\ ~out.panic
    /\ Len(out.allocs) = Len(inSets)
    /\ \A i \in 1..Len(inSets) :
         Cardinality({k \in 1..Len(out.allocs) : out.allocs[k].Name = inSets[i].Name}) = 1

\* C35: single-flight ticks.  At most one execution of ReconcileOnce is in
\* progress at any time, and a call starts only when none is in progress, also
\* when the ticker fires while a call is still running.
C35_SingleFlight ==
  /\ inProgress \in {0, 1}
  /\ inProgress = 1 <=> pc \in {"initialTick", "periodicTick"}

\* a periodic tick runs for longer than the interval: the ticker has fired again
\* while the call is in progress
C35_Witness ==
  /\ pc = "periodicTick" /\ inProgress = 1
  /\ tickerRunning /\ tickerC

\* runner set i of the cluster differs between the two states of a step in
\* nothing but maxRunners
OnlyMaxRunnersWritten(i) ==
  runnerSetList'[i] = [runnerSetList[i] EXCEPT !.MaxRunners = runnerSetList'[i].MaxRunners]

\* C34: frame of a tick.  A live-mode tick changes nothing but the maxRunners
\* field of runner sets that received an allocation (they passed extraction)
\* whose final value differs from their current maxRunners: every other field
\* of those records, every other runner-set record, the nodes and the pods are
\* as before.
C34_TickFrame ==
  [][(tickResult' # "none" /\ ~config.DryRun) =>
       /\ nodes' = nodes /\ pods' = pods /\ config' = config
       /\ Len(runnerSetList') = Len(runnerSetList)
       /\ \A i \in 1..Len(runnerSetList) :
            /\ OnlyMaxRunnersWritten(i)
            /\ runnerSetList'[i].MaxRunners # runnerSetList[i].MaxRunners =>
                 ExtractRunnerSetResources(runnerSetList[i]).err = ""]_vars

\* the frame of a tick over runner sets with distinct names
C34_TickFrameUniqueNames ==
  [][(tickResult' # "none" /\ ~config.DryRun
      /\ runnerSetList[1].Name # runnerSetList[2].Name) =>
       /\ nodes' = nodes /\ pods' = pods /\ config' = config
       /\ \A i \in 1..Len(runnerSetList) :
            /\ OnlyMaxRunnersWritten(i)
            /\ runnerSetList'[i].MaxRunners # runnerSetList[i].MaxRunners =>
                 /\ ExtractRunnerSetResources(runnerSetList[i]).err = ""
                 /\ \E k \in 1..Len(patched') :
                      /\ patched'[k].update.Index = i /\ ~patched'[k].failed
                      /\ patched'[k].update.NewMax # patched'[k].update.OldMax
                      /\ runnerSetList'[i].MaxRunners = Some(patched'[k].update.NewMax)]_vars

\* the patch calls of the last tick against listed runner set i
PatchesAgainst(i) == {k \in 1..Len(patched) : patched[k].update.Index = i}

\* C40: each allocation is applied to the runner set it was computed from.
\* Within one tick a runner set is patched at most once, only if it is enabled
\* (it passed extraction), and with the final value of the allocation computed
\* from its own resources, maxRunners and running count, also when two listed
\* runner sets of different namespaces have the same name.
C40_OwnAllocationApplied ==
  tickResult = "ok" =>
    \A i \in 1..Len(listed) :
      /\ Cardinality(PatchesAgainst(i)) <= 1
      /\ \A k \in PatchesAgainst(i) :
           /\ ExtractRunnerSetResources(listed[i]).err = ""
           /\ patched[k].update.OldMax = ListedMax(i)
           /\ patched[k].update.NewMax = Max(OwnAllocation(i), listed[i].CurrentRunners)

\* the same over listings with distinct names
C40_OwnAllocationAppliedUniqueNames ==
  (tickResult = "ok" /\ UniqueNames) =>
    \A i \in 1..Len(listed) :
      /\ Cardinality(PatchesAgainst(i)) <= 1
      /\ \A k \in PatchesAgainst(i) :
           /\ ExtractRunnerSetResources(listed[i]).err = ""
           /\ patched[k].update.OldMax = ListedMax(i)
           /\ patched[k].update.NewMax = Max(OwnAllocation(i), listed[i].CurrentRunners)

\* runner set i holds a positive maxRunners, has no min-runners annotation and
\* runs no more runners than its maxRunners
PositiveMaxRespected(i) ==
  /\ runnerSetList[i].MaxRunners # Nil
  /\ runnerSetList[i].MaxRunners[1] > 0
  /\ runnerSetList[i].Annotations.minRunners = Absent
  /\ runnerSetList[i].CurrentRunners <= runnerSetList[i].MaxRunners[1]

\* a live tick leaves runner set i with a maxRunners of at most its value before,
\* and every patch call against it carries such a value
NotRaisedByTick(i) ==
  /\ runnerSetList'[i].MaxRunners[1] <= runnerSetList[i].MaxRunners[1]
  /\ \A k \in 1..Len(patched') :
       patched'[k].update.Index = i =>
         patched'[k].update.NewMax <= runnerSetList[i].MaxRunners[1]

\* C38: the controller never raises a positive maxRunners.  In every live tick a
\* runner set with maxRunners = m > 0, no minimum and at most m runners running
\* is patched only to values <= m, whatever capacity is available.
C38_NeverRaised ==
  [][(tickResult' # "none" /\ ~config.DryRun) =>
       \A i \in 1..Len(runnerSetList) :
         PositiveMaxRespected(i) => NotRaisedByTick(i)]_vars

\* the same over runner sets with distinct names
C38_NeverRaisedUniqueNames ==
  [][(tickResult' # "none" /\ ~config.DryRun /\ UniqueNames) =>
       \A i \in 1..Len(runnerSetList) :
         PositiveMaxRespected(i) => NotRaisedByTick(i)]_vars

\* the stored runner set a patch call addresses
PatchedObject(k) ==
  runnerSetList[ObjectIndex(runnerSetList, patched[k].update.Namespace,
                            patched[k].update.Name)]

\* C31: the safety floor under concurrency.  When the patches of a tick have
\* been applied, every value written is at least the number of runners its
\* runner set is running at that moment, also when the runner controller has
\* started runners (within the old maxRunners) between the tick's listing and
\* its patches (stated for clusters whose runner sets have distinct names).
C31_FloorAtPatchTime ==
  (tickResult = "ok" /\ UniqueNames) =>
    \A k \in 1..Len(patched) :
      ~patched[k].failed => patched[k].update.NewMax >= PatchedObject(k).CurrentRunners

====
